---- MODULE Spec2Model ----
(***************************************************************************)
(* A model of the banking demo.                                            *)
(*                                                                         *)
(* The finance calculator library (src/finance_tools/finance_tools.py):    *)
(* ten calculator entry points that coerce their arguments, validate them  *)
(* and evaluate a closed formula or a short loop; called by one caller     *)
(* (Spec) or by several at once (SpecCallers).                             *)
(*                                                                         *)
(* The banking application (src/djangoProject/BankingSystem/Banking):      *)
(* the Account model with its deposit and withdraw methods (SpecAccount)   *)
(* and the views with registration, login sessions and the protected       *)
(* pages (SpecBank).                                                       *)
(*                                                                         *)
(* Numbers.  Python floats are modelled by exact rationals <<n, d>> with   *)
(* d > 0 in lowest terms.  round(x) (to an integer) is round-half-even, as *)
(* in Python.  round(x, 2) rounds the binary value of the float: away from *)
(* a decimal tie it is the nearest cent; at an exact decimal tie the       *)
(* result depends on which side the binary representation falls, so the    *)
(* model takes the direction as an input (tie = 0: down, tie = 1: up) and  *)
(* every statement has to hold for both.                                   *)
(*                                                                         *)
(* Arguments.  A raw argument is a Python number, a string that spells a   *)
(* number, a string that spells none, or None.                             *)
(***************************************************************************)
EXTENDS Integers, Sequences, FiniteSets, TLC

VARIABLES
    pc, call, outcome, bal, month, nmonths,   \* the single caller of the library
    callers,                                   \* the concurrent callers of the library
    users, accounts, session, response,        \* the banking application
    obj, lastcall,                             \* an Account instance and the last call on it
    requests, ledger                           \* requests being served and what they moved

vars ==
    <<pc, call, outcome, bal, month, nmonths, callers, users, accounts, session, response,
      obj, lastcall, requests, ledger>>

\* the state of the single caller, and the state of the banking application
calcVars == <<pc, call, outcome, bal, month, nmonths>>
bankVars == <<users, accounts, session, response, obj, lastcall, requests, ledger>>

-----------------------------------------------------------------------------
(* Bounds of the model *)

\* longest asset / liability list
MaxLen == 2
\* largest month count passed to the credit-card simulation
MaxMonths == 3
\* largest month count for which a compound (non-zero rate) formula is
\* evaluated: (1+r)^n has to stay inside TLC's integers
MaxCompoundMonths == 3
\* number of concurrent callers of the library
NumCallers == 2
\* deposits of the largest amount an account can take
MaxDeposits == 2
\* calls made on one Account instance
MaxCalls == 3
\* deposit and withdraw requests served in one run
MaxServed == 3

-----------------------------------------------------------------------------
(* Float arithmetic, as exact rationals *)

Abs(x) == IF x < 0 THEN -x ELSE x

RECURSIVE GCD(_, _)
GCD(a, b) == IF b = 0 THEN a ELSE GCD(b, a % b)

Norm(n, d) ==
    LET g == GCD(Abs(n), d)
    IN  IF g = 0 THEN <<0, 1>> ELSE <<n \div g, d \div g>>

Rat(n) == <<n, 1>>
Zero == <<0, 1>>
One == <<1, 1>>

RNeg(x) == <<-x[1], x[2]>>

RAdd(x, y) ==
    LET g == GCD(x[2], y[2])
    IN  Norm(x[1] * (y[2] \div g) + y[1] * (x[2] \div g), (x[2] \div g) * y[2])

RSub(x, y) == RAdd(x, RNeg(y))

\* cross-cancelling keeps the intermediate products small
RMul(x, y) ==
    LET g1 == GCD(Abs(x[1]), y[2])
        g2 == GCD(Abs(y[1]), x[2])
    IN  IF x[1] = 0 \/ y[1] = 0 THEN Zero
        ELSE <<(x[1] \div g1) * (y[1] \div g2), (x[2] \div g2) * (y[2] \div g1)>>

\* 1 / y, for y # 0
RInv(y) == IF y[1] < 0 THEN <<-y[2], -y[1]>> ELSE <<y[2], y[1]>>

\* x / y, for y # 0
RDiv(x, y) == RMul(x, RInv(y))

RLt(x, y) == x[1] * y[2] < y[1] * x[2]
RLe(x, y) == x[1] * y[2] <= y[1] * x[2]

RMax(x, y) == IF RLt(x, y) THEN y ELSE x
RMin(x, y) == IF RLt(y, x) THEN y ELSE x

\* x ** k for an integer k >= 0
RECURSIVE RPow(_, _)
RPow(x, k) == IF k = 0 THEN One ELSE RMul(x, RPow(x, k - 1))

\* the largest integer <= x
Floor(x) == x[1] \div x[2]

\* int(x) of a float: truncation toward zero
Trunc(x) == IF x[1] < 0 THEN -((-x[1]) \div x[2]) ELSE x[1] \div x[2]

IsIntegral(x) == x[2] = 1

\* round(x): the nearest integer, an exact half to the even neighbour
PyRound(x) ==
    LET f == Floor(x)
        rest == x[1] % x[2]
    IN  IF 2 * rest < x[2] THEN f
        ELSE IF 2 * rest > x[2] THEN f + 1
        ELSE IF f % 2 = 0 THEN f ELSE f + 1

\* round(x, 2): the nearest multiple of 0.01; at an exact decimal tie the
\* neighbour the float's binary value is nearer to (tie = 0: lower, 1: upper)
Round2(x, tie) ==
    LET whole == Floor(x)
        frac == (x[1] % x[2]) * 100
        f == whole * 100 + frac \div x[2]
        rest == frac % x[2]
        c == IF 2 * rest < x[2] THEN f
             ELSE IF 2 * rest > x[2] THEN f + 1
             ELSE f + tie
    IN  Norm(c, 100)

-----------------------------------------------------------------------------
(* Raw arguments and outcomes *)

Num(n, d) == [kind |-> "num", val |-> Norm(n, d)]
NumStr(n, d) == [kind |-> "numstr", val |-> Norm(n, d)]
BadStr == [kind |-> "str", val |-> Zero]
None == [kind |-> "none", val |-> Zero]

NoIndex == -1

Ok(v) == [kind |-> "ok", value |-> v, params |-> {}, constraint |-> "", index |-> NoIndex]

Raise(kind, params, constraint, index) ==
    [kind |-> kind, value |-> Zero, params |-> params, constraint |-> constraint,
     index |-> index]

NoOutcome == [kind |-> "none", value |-> Zero, params |-> {}, constraint |-> "",
              index |-> NoIndex]

\* float(value) succeeds
IsNumeric(value) == value.kind \in {"num", "numstr"}

\* _to_float's error: TypeError "<name> must be a number"
NotANumber(name, index) == Raise("TypeError", {name}, "must be a number", index)

\* _to_float's result, for a value with IsNumeric(value)
to_float(value) == value.val

\* the first raw argument of args (a sequence of <<name, value>>) that float()
\* rejects, as _to_float's TypeError; NoOutcome when all convert
RECURSIVE CoerceAll(_)
CoerceAll(args) ==
    IF args = <<>> THEN NoOutcome
    ELSE IF ~IsNumeric(Head(args)[2]) THEN NotANumber(Head(args)[1], NoIndex)
    ELSE CoerceAll(Tail(args))

\* a month count that drops the round(): int(years * 12)
MonthCountTruncated(years) == Trunc(RMul(years, Rat(12)))

\* a month count that rounds an exact half away from zero: 2.5 -> 3
MonthCountHalfUp(years) ==
    LET x == RMul(years, Rat(12))
    IN  IF x[1] < 0 THEN -((2 * (-x[1]) + x[2]) \div (2 * x[2]))
        ELSE (2 * x[1] + x[2]) \div (2 * x[2])

\* n = int(round(years * 12))
MonthCount(years) == PyRound(RMul(years, Rat(12)))

\* monthly_rate = r_ann / 100.0 / 12.0
MonthlyRate(r_ann) == RDiv(RDiv(r_ann, Rat(100)), Rat(12))

-----------------------------------------------------------------------------
(* calculate_emi *)

\* an EMI formula that loses the factor (1 + r) ** n of the numerator
EmiFormulaNoGrowth(P, monthly_rate, n) ==
    IF monthly_rate = Zero
    THEN IF n = 0 THEN Raise("ZeroDivisionError", {}, "", NoIndex)
         ELSE Ok(RDiv(P, Rat(n)))
    ELSE LET g == RPow(RAdd(One, monthly_rate), n)
         IN  IF RSub(g, One) = Zero
             THEN Raise("ZeroDivisionError", {}, "", NoIndex)
             ELSE Ok(RDiv(RMul(P, monthly_rate), RSub(g, One)))

\* P / n, or P * r * (1 + r) ** n / ((1 + r) ** n - 1); the division by n = 0
\* or by (1 + r) ** 0 - 1 = 0 is not guarded
EmiFormula(P, monthly_rate, n) ==
    IF monthly_rate = Zero
    THEN IF n = 0 THEN Raise("ZeroDivisionError", {}, "", NoIndex)
         ELSE Ok(RDiv(P, Rat(n)))
    ELSE LET g == RPow(RAdd(One, monthly_rate), n)
         IN  IF RSub(g, One) = Zero
             THEN Raise("ZeroDivisionError", {}, "", NoIndex)
             ELSE Ok(RDiv(RMul(RMul(P, monthly_rate), g), RSub(g, One)))

calculate_emi(principal, annual_rate_percent, tenure_years, tie) ==
    LET c == CoerceAll(<< <<"principal", principal>>,
                          <<"annual_rate_percent", annual_rate_percent>>,
                          <<"tenure_years", tenure_years>> >>)
        P == to_float(principal)
        r_ann == to_float(annual_rate_percent)
        t == to_float(tenure_years)
    IN  IF c.kind # "none" THEN c
        ELSE IF RLe(P, Zero) THEN Raise("ValueError", {"principal"}, "must be > 0", NoIndex)
        ELSE IF RLe(t, Zero) THEN Raise("ValueError", {"tenure_years"}, "must be > 0", NoIndex)
        ELSE IF RLt(r_ann, Zero)
             THEN Raise("ValueError", {"annual_rate_percent"}, "cannot be negative", NoIndex)
        ELSE LET emi == EmiFormula(P, MonthlyRate(r_ann), MonthCount(t))
             IN  IF emi.kind # "ok" THEN emi ELSE Ok(Round2(emi.value, tie))

-----------------------------------------------------------------------------
(* calculate_sip, calculate_rd, estimate_retirement_corpus: the annuity *)

\* amount of calculate_sip: m * n, or m * (((1+r)**n - 1) / r) * (1+r)
SipAmount(m, monthly_rate, n) ==
    IF monthly_rate = Zero THEN RMul(m, Rat(n))
    ELSE LET g == RPow(RAdd(One, monthly_rate), n)
         IN  RMul(RMul(m, RDiv(RSub(g, One), monthly_rate)), RAdd(One, monthly_rate))

\* an annuity without the (1 + r) adjustment
RdAmountNoAdjust(p, monthly_rate, n) ==
    IF monthly_rate = Zero THEN RMul(p, Rat(n))
    ELSE LET g == RPow(RAdd(One, monthly_rate), n)
         IN  RMul(p, RDiv(RSub(g, One), monthly_rate))

\* amount of calculate_rd: p * n, or p * (((1+r)**n - 1) / r) * (1+r)
RdAmount(p, monthly_rate, n) ==
    IF monthly_rate = Zero THEN RMul(p, Rat(n))
    ELSE LET g == RPow(RAdd(One, monthly_rate), n)
         IN  RMul(RMul(p, RDiv(RSub(g, One), monthly_rate)), RAdd(One, monthly_rate))

\* fv_additions of estimate_retirement_corpus
FvAdditions(add, monthly_rate, n) ==
    IF monthly_rate = Zero THEN RMul(add, Rat(n))
    ELSE LET g == RPow(RAdd(One, monthly_rate), n)
         IN  RMul(RMul(add, RDiv(RSub(g, One), monthly_rate)), RAdd(One, monthly_rate))

calculate_sip(monthly_investment, annual_return_percent, years, tie) ==
    LET c == CoerceAll(<< <<"monthly_investment", monthly_investment>>,
                          <<"annual_return_percent", annual_return_percent>>,
                          <<"years", years>> >>)
        m == to_float(monthly_investment)
        r_ann == to_float(annual_return_percent)
        y == to_float(years)
    IN  IF c.kind # "none" THEN c
        ELSE IF RLt(m, Zero)
             THEN Raise("ValueError", {"monthly_investment"}, "cannot be negative", NoIndex)
        ELSE IF RLe(y, Zero) THEN Raise("ValueError", {"years"}, "must be > 0", NoIndex)
        ELSE IF RLt(r_ann, Zero)
             THEN Raise("ValueError", {"annual_return_percent"}, "cannot be negative", NoIndex)
        ELSE Ok(Round2(SipAmount(m, MonthlyRate(r_ann), MonthCount(y)), tie))

calculate_rd(monthly_deposit, annual_rate_percent, years, tie) ==
    LET c == CoerceAll(<< <<"monthly_deposit", monthly_deposit>>,
                          <<"annual_rate_percent", annual_rate_percent>>,
                          <<"years", years>> >>)
        p == to_float(monthly_deposit)
        r == to_float(annual_rate_percent)
        y == to_float(years)
    IN  IF c.kind # "none" THEN c
        ELSE IF RLt(p, Zero)
             THEN Raise("ValueError", {"monthly_deposit"}, "cannot be negative", NoIndex)
        ELSE IF RLe(y, Zero) THEN Raise("ValueError", {"years"}, "must be > 0", NoIndex)
        ELSE IF RLt(r, Zero)
             THEN Raise("ValueError", {"annual_rate_percent"}, "cannot be negative", NoIndex)
        ELSE Ok(Round2(RdAmount(p, MonthlyRate(r), MonthCount(y)), tie))

\* total = fv_savings + fv_additions, with fv_savings = S * (1 + r) ** n
RetirementTotal(S, add, monthly_rate, n) ==
    RAdd(RMul(S, RPow(RAdd(One, monthly_rate), n)), FvAdditions(add, monthly_rate, n))

estimate_retirement_corpus(current_savings, monthly_addition, annual_return_percent, years_to_retirement, tie) ==
    LET c == CoerceAll(<< <<"current_savings", current_savings>>,
                          <<"monthly_addition", monthly_addition>>,
                          <<"annual_return_percent", annual_return_percent>>,
                          <<"years_to_retirement", years_to_retirement>> >>)
        S == to_float(current_savings)
        add == to_float(monthly_addition)
        r == to_float(annual_return_percent)
        y == to_float(years_to_retirement)
    IN  IF c.kind # "none" THEN c
        ELSE IF RLt(S, Zero) \/ RLt(add, Zero)
             THEN Raise("ValueError", {"current_savings", "monthly_addition"},
                        "cannot be negative", NoIndex)
        ELSE IF RLe(y, Zero)
             THEN Raise("ValueError", {"years_to_retirement"}, "must be > 0", NoIndex)
        ELSE IF RLt(r, Zero)
             THEN Raise("ValueError", {"annual_return_percent"}, "cannot be negative", NoIndex)
        ELSE Ok(Round2(RetirementTotal(S, add, MonthlyRate(r), MonthCount(y)), tie))

-----------------------------------------------------------------------------
(* calculate_fd *)

\* int(compounding_frequency_per_year): a float is truncated, a string has to
\* spell an integer (ValueError otherwise), None is a TypeError
IntOf(value) ==
    CASE value.kind = "num" -> Ok(Rat(Trunc(value.val)))
      [] value.kind = "numstr" ->
            IF IsIntegral(value.val) THEN Ok(value.val)
            ELSE Raise("ValueError", {}, "invalid literal for int()", NoIndex)
      [] value.kind = "str" -> Raise("ValueError", {}, "invalid literal for int()", NoIndex)
      [] OTHER -> Raise("TypeError", {}, "int() argument must be a number", NoIndex)

\* the exponent freq * t is a whole number: the power is then exact
FdExact(years, compounding_frequency_per_year) ==
    (IsNumeric(years) /\ IntOf(compounding_frequency_per_year).kind = "ok")
        => LET e == RMul(IntOf(compounding_frequency_per_year).value, to_float(years))
           IN  e[1] < 0 \/ IsIntegral(e)

\* an amount that compounds the rate alone, without the 1 +
FdAmountRateOnly(P, r, t, freq) ==
    RMul(P, RPow(RDiv(RDiv(r, Rat(100)), Rat(freq)), Trunc(RMul(Rat(freq), t))))

\* amount = P * (1 + r / 100.0 / freq) ** (freq * t), for a whole freq * t
FdAmount(P, r, t, freq) ==
    RMul(P, RPow(RAdd(One, RDiv(RDiv(r, Rat(100)), Rat(freq))), Trunc(RMul(Rat(freq), t))))

calculate_fd(principal, annual_rate_percent, years, compounding_frequency_per_year, tie) ==
    LET c == CoerceAll(<< <<"principal", principal>>,
                          <<"annual_rate_percent", annual_rate_percent>>,
                          <<"years", years>> >>)
        P == to_float(principal)
        r == to_float(annual_rate_percent)
        t == to_float(years)
        f == IntOf(compounding_frequency_per_year)
        freq == f.value[1]
    IN  IF c.kind # "none" THEN c
        ELSE IF f.kind # "ok" THEN f
        ELSE IF RLe(P, Zero) THEN Raise("ValueError", {"principal"}, "must be > 0", NoIndex)
        ELSE IF RLe(t, Zero) THEN Raise("ValueError", {"years"}, "must be > 0", NoIndex)
        ELSE IF RLt(r, Zero)
             THEN Raise("ValueError", {"annual_rate_percent"}, "cannot be negative", NoIndex)
        ELSE IF freq <= 0
             THEN Raise("ValueError", {"compounding_frequency_per_year"}, "must be > 0",
                        NoIndex)
        ELSE Ok(Round2(FdAmount(P, r, t, freq), tie))

-----------------------------------------------------------------------------
(* estimate_home_loan_eligibility *)

\* a cap whose disposable income is not floored at zero
EmiCapUnfloored(mi, me, mpe) ==
    RMin(RSub(mi, me), RMul(mi, RDiv(mpe, Rat(100))))

\* emi_cap = min(max(0.0, mi - me), mi * (mpe / 100.0))
EmiCap(mi, me, mpe) ==
    RMin(RMax(Zero, RSub(mi, me)), RMul(mi, RDiv(mpe, Rat(100))))

\* a range check that forgets the lower end
PercentAboveRange(mpe) == RLt(Rat(100), mpe)

\* not (0 <= mpe <= 100)
PercentOutOfRange(mpe) == ~(RLe(Zero, mpe) /\ RLe(mpe, Rat(100)))

\* a principal that counts one instalment too few at a zero rate
PrincipalOneInstalmentShort(emi_cap, monthly_rate, n) ==
    IF monthly_rate = Zero THEN RMul(emi_cap, Rat(n - 1))
    ELSE LET g == RPow(RAdd(One, monthly_rate), n)
             factor == RDiv(RSub(g, One), RMul(monthly_rate, g))
         IN  RMul(emi_cap, factor)

\* the EMI formula inverted, for n >= 1
PrincipalFor(emi_cap, monthly_rate, n) ==
    IF monthly_rate = Zero THEN RMul(emi_cap, Rat(n))
    ELSE LET g == RPow(RAdd(One, monthly_rate), n)
             factor == RDiv(RSub(g, One), RMul(monthly_rate, g))
         IN  RMul(emi_cap, factor)

estimate_home_loan_eligibility(monthly_income, monthly_expenses, interest_rate_percent, tenure_years, max_emi_percent, tie) ==
    LET c == CoerceAll(<< <<"monthly_income", monthly_income>>,
                          <<"monthly_expenses", monthly_expenses>>,
                          <<"interest_rate_percent", interest_rate_percent>>,
                          <<"tenure_years", tenure_years>>,
                          <<"max_emi_percent", max_emi_percent>> >>)
        mi == to_float(monthly_income)
        me == to_float(monthly_expenses)
        r == to_float(interest_rate_percent)
        t == to_float(tenure_years)
        mpe == to_float(max_emi_percent)
        n == MonthCount(t)
    IN  IF c.kind # "none" THEN c
        ELSE IF RLt(mi, Zero) \/ RLt(me, Zero)
             THEN Raise("ValueError", {"monthly_income", "monthly_expenses"},
                        "cannot be negative", NoIndex)
        ELSE IF RLe(t, Zero) THEN Raise("ValueError", {"tenure_years"}, "must be > 0", NoIndex)
        ELSE IF RLt(r, Zero)
             THEN Raise("ValueError", {"interest_rate_percent"}, "cannot be negative", NoIndex)
        ELSE IF PercentOutOfRange(mpe)
             THEN Raise("ValueError", {"max_emi_percent"}, "must be between 0 and 100", NoIndex)
        ELSE IF n <= 0
             THEN Raise("ValueError", {"tenure in months"}, "must be > 0", NoIndex)
        ELSE Ok(Round2(PrincipalFor(EmiCap(mi, me, mpe), MonthlyRate(r), n), tie))

-----------------------------------------------------------------------------
(* calculate_taxable_income, plan_budget *)

\* a taxable income that is not floored at zero
taxable_income_unclamped(gross_income_yearly, standard_deduction, other_deductions, tie) ==
    LET c == CoerceAll(<< <<"gross_income_yearly", gross_income_yearly>>,
                          <<"standard_deduction", standard_deduction>>,
                          <<"other_deductions", other_deductions>> >>)
        gi == to_float(gross_income_yearly)
        sd == to_float(standard_deduction)
        od == to_float(other_deductions)
    IN  IF c.kind # "none" THEN c
        ELSE IF RLt(gi, Zero) \/ RLt(sd, Zero) \/ RLt(od, Zero)
             THEN Raise("ValueError",
                        {"gross_income_yearly", "standard_deduction", "other_deductions"},
                        "cannot be negative", NoIndex)
        ELSE Ok(Round2(RSub(RSub(gi, sd), od), tie))

calculate_taxable_income(gross_income_yearly, standard_deduction, other_deductions, tie) ==
    LET c == CoerceAll(<< <<"gross_income_yearly", gross_income_yearly>>,
                          <<"standard_deduction", standard_deduction>>,
                          <<"other_deductions", other_deductions>> >>)
        gi == to_float(gross_income_yearly)
        sd == to_float(standard_deduction)
        od == to_float(other_deductions)
    IN  IF c.kind # "none" THEN c
        ELSE IF RLt(gi, Zero) \/ RLt(sd, Zero) \/ RLt(od, Zero)
             THEN Raise("ValueError",
                        {"gross_income_yearly", "standard_deduction", "other_deductions"},
                        "cannot be negative", NoIndex)
        ELSE Ok(Round2(RMax(Zero, RSub(RSub(gi, sd), od)), tie))

\* a policy table whose tier boundaries are exclusive
RecPercentExclusive(mi, me) ==
    IF mi = Zero THEN Zero
    ELSE LET expense_ratio == RDiv(me, mi)
         IN  IF RLt(expense_ratio, <<7, 10>>) THEN Rat(20)
             ELSE IF RLt(expense_ratio, <<9, 10>>) THEN Rat(10)
             ELSE Zero

\* the policy table of plan_budget
RecPercent(mi, me) ==
    IF mi = Zero THEN Zero
    ELSE LET expense_ratio == RDiv(me, mi)
         IN  IF RLe(expense_ratio, <<7, 10>>) THEN Rat(20)
             ELSE IF RLe(expense_ratio, <<9, 10>>) THEN Rat(10)
             ELSE Zero

plan_budget(monthly_income, monthly_expenses, tie) ==
    LET c == CoerceAll(<< <<"monthly_income", monthly_income>>,
                          <<"monthly_expenses", monthly_expenses>> >>)
        mi == to_float(monthly_income)
        me == to_float(monthly_expenses)
    IN  IF c.kind # "none" THEN c
        ELSE IF RLt(mi, Zero) \/ RLt(me, Zero)
             THEN Raise("ValueError", {"monthly_income", "monthly_expenses"},
                        "cannot be negative", NoIndex)
        ELSE Ok([savings_target |-> Round2(RMul(mi, RDiv(RecPercent(mi, me), Rat(100))), tie),
                 recommended_savings_percent |-> RecPercent(mi, me),
                 surplus_or_deficit |-> Round2(RSub(mi, me), tie)])

-----------------------------------------------------------------------------
(* calculate_net_worth *)

\* a list argument, and an argument that is neither a list nor a tuple
List(items) == [islist |-> TRUE, items |-> items]
NotAList == [islist |-> FALSE, items |-> <<>>]

\* a loop that adds the items without the sign check
RECURSIVE SumUnchecked(_, _, _, _, _)
SumUnchecked(items, name, plural, i, total) ==
    IF i > Len(items) THEN Ok(total)
    ELSE IF ~IsNumeric(items[i]) THEN NotANumber(name, i - 1)
    ELSE SumUnchecked(items, name, plural, i + 1, RAdd(total, to_float(items[i])))

\* one of the two loops: items i.. are coerced, checked and added to total in
\* turn; the first item that fails ends the call
RECURSIVE SumChecked(_, _, _, _, _)
SumChecked(items, name, plural, i, total) ==
    IF i > Len(items) THEN Ok(total)
    ELSE IF ~IsNumeric(items[i]) THEN NotANumber(name, i - 1)
    ELSE IF RLt(to_float(items[i]), Zero)
         THEN Raise("ValueError", {plural}, "cannot be negative", NoIndex)
    ELSE SumChecked(items, name, plural, i + 1, RAdd(total, to_float(items[i])))

calculate_net_worth(assets, liabilities, tie) ==
    IF ~assets.islist \/ ~liabilities.islist
    THEN Raise("TypeError", {"assets", "liabilities"}, "must be lists or tuples", NoIndex)
    ELSE LET total_assets == SumChecked(assets.items, "asset", "assets", 1, Zero)
             total_liabilities ==
                 SumChecked(liabilities.items, "liability", "liabilities", 1, Zero)
         IN  IF total_assets.kind # "ok" THEN total_assets
             ELSE IF total_liabilities.kind # "ok" THEN total_liabilities
             ELSE Ok(Round2(RSub(total_assets.value, total_liabilities.value), tie))

-----------------------------------------------------------------------------
(* calculate_credit_card_balance: validation, then one step per month *)

\* everything before the loop: the error raised, or NoOutcome
CreditCardChecks(current_balance, monthly_interest_percent, minimum_payment_percent, months) ==
    LET c == CoerceAll(<< <<"current_balance", current_balance>>,
                          <<"monthly_interest_percent", monthly_interest_percent>>,
                          <<"minimum_payment_percent", minimum_payment_percent>>,
                          <<"months", months>> >>)
    IN  IF c.kind # "none" THEN c
        ELSE IF RLt(to_float(current_balance), Zero)
             THEN Raise("ValueError", {"current_balance"}, "cannot be negative", NoIndex)
        ELSE IF RLt(to_float(monthly_interest_percent), Zero)
                \/ RLt(to_float(minimum_payment_percent), Zero)
             THEN Raise("ValueError",
                        {"monthly_interest_percent", "minimum_payment_percent"},
                        "cannot be negative", NoIndex)
        ELSE IF Trunc(to_float(months)) < 1
             THEN Raise("ValueError", {"months"}, "must be >= 1", NoIndex)
        ELSE NoOutcome

\* m = int(_to_float("months", months))
MonthsToSimulate(months) == Trunc(to_float(months))

\* an iteration that takes the payment on the balance before interest
CreditCardMonthPayOnOld(b, mi, mp) ==
    LET withInterest == RMul(b, RAdd(One, RDiv(mi, Rat(100))))
        payment == RMul(b, RDiv(mp, Rat(100)))
    IN  RMax(Zero, RSub(withInterest, payment))

\* one iteration: interest, then the minimum payment on the new balance,
\* floored at zero
CreditCardMonth(b, mi, mp) ==
    LET withInterest == RMul(b, RAdd(One, RDiv(mi, Rat(100))))
        payment == RMul(withInterest, RDiv(mp, Rat(100)))
    IN  RMax(Zero, RSub(withInterest, payment))

-----------------------------------------------------------------------------
(* The arguments the callers pass *)

Tie == {0, 1}

Garbage == {BadStr, None}

Principals ==
    {Num(120000, 1), Num(100, 1), Num(1, 1), Num(1, 100), Num(0, 1), Num(-5, 1),
     NumStr(12, 1)} \cup Garbage

\* annual rates in percent: monthly rates 0, 1/10, 1/4, 1/2
AnnualRates == {Num(0, 1), Num(120, 1), Num(300, 1), Num(600, 1), Num(-1, 1), BadStr}

\* years: 0, 0, 1, 2, 2, 3 and 4 months after rounding, one and two years
Durations ==
    {Num(1, 48), Num(1, 24), Num(1, 12), Num(1, 8), Num(5, 24), Num(1, 4), Num(1, 3),
     Num(1, 1), Num(2, 1), Num(0, 1), Num(-1, 1), None}

MonthlyAmounts == {Num(1000, 1), Num(1, 8), Num(0, 1), Num(-100, 1), BadStr}

\* a compound formula is evaluated for at most MaxCompoundMonths months
Compoundable(rate, years) ==
    (IsNumeric(rate) /\ IsNumeric(years) /\ RLt(Zero, to_float(rate)))
        => MonthCount(to_float(years)) <= MaxCompoundMonths

FdPrincipals == {Num(100, 1), Num(1, 100), Num(1, 8), Num(0, 1), BadStr}
FdRates == {Num(0, 1), Num(10, 1), Num(100, 1), Num(-1, 1), None}
FdYears == {Num(1, 2), Num(1, 1), Num(2, 1), Num(0, 1), BadStr}
Frequencies ==
    {Num(1, 1), Num(2, 1), Num(5, 2), Num(0, 1), NumStr(2, 1), NumStr(5, 2), BadStr, None}

Incomes == {Num(1000, 1), Num(0, 1), Num(-1, 1), BadStr}
Expenses == {Num(400, 1), Num(700, 1), Num(900, 1), Num(1200, 1), Num(0, 1), Num(-1, 1), None}
HomeRates == {Num(0, 1), Num(120, 1), Num(-1, 1), BadStr}
HomeTenures == {Num(1, 24), Num(1, 12), Num(1, 4), Num(1, 1), Num(0, 1), None}
EmiPercents ==
    {Num(0, 1), Num(50, 1), Num(100, 1), Num(200, 1), Num(-1, 1), Num(201, 2), Num(1, 8),
     Num(1, 800), BadStr}

Balances == {Num(1000, 1), Num(1, 8), Num(0, 1), Num(-1, 1), BadStr}
InterestPercents == {Num(0, 1), Num(25, 1), Num(50, 1), Num(-1, 1), None}
PaymentPercents == {Num(0, 1), Num(20, 1), Num(50, 1), Num(100, 1), Num(150, 1), Num(-1, 1)}
Months ==
    {Num(k, 1) : k \in -1..MaxMonths}
        \cup {Num(3, 2), Num(1, 2), Num(-1, 2), NumStr(2, 1), BadStr}

GrossIncomes == {Num(100000, 1), Num(1000, 1), Num(0, 1), Num(-1000, 1), BadStr}
Deductions == {Num(50000, 1), Num(5000, 1), Num(1, 8), Num(0, 1), Num(-1, 1), None}

Items == {Num(100000, 1), Num(50000, 1), Num(20000, 1), Num(1, 8), Num(-100, 1), BadStr}

\* the lists of at most MaxLen items
Lists == {List(s) : s \in UNION {[1..k -> Items] : k \in 0..MaxLen}} \cup {NotAList}

-----------------------------------------------------------------------------
(* The callers: one call at a time, its outcome handed back *)

Idle == [fn |-> "none", args |-> <<>>, tie |-> 0]

\* a concurrent caller with no call in progress
Callers == 1..NumCallers
IdleCaller ==
    [pc |-> "idle", call |-> Idle, outcome |-> NoOutcome, bal |-> Zero, month |-> 0,
     nmonths |-> 0]

\* the people and browsers of the banking application
Usernames == {"u1", "u2"}
Passwords == {"p1", "p2"}
Clients == {"c1", "c2"}

\* no row in the User table, no row in the Account table, request.user of a
\* request without a session
Unregistered == "unregistered"
NoAccount == <<>>
Anonymous == "anonymous"

\* result = None in the context of calculator_view
NoResult == [set |-> FALSE, value |-> <<>>]

NoResponse ==
    [client |-> "none", view |-> "none", user |-> Anonymous, params |-> <<>>,
     status |-> "none", error |-> "", result |-> NoResult]
NoObject == [user |-> Anonymous, balance |-> NoAccount]
\* a client without a request in progress, and the totals before any request
NoRequest == [pc |-> "idle", view |-> "none", amount |-> None, balance |-> NoAccount]
NoLedger == [initial |-> Zero, deposited |-> Zero, withdrawn |-> Zero, served |-> 0]
NoCall ==
    [n |-> 0, op |-> "none", amount |-> None, kind |-> "none", message |-> "",
     balance_before |-> NoAccount, stored_before |-> NoAccount]

\* nobody is calling the library
CalcInit ==
    /\ pc = "idle"
    /\ call = Idle
    /\ outcome = NoOutcome
    /\ bal = Zero
    /\ month = 0
    /\ nmonths = 0
    /\ callers = [c \in Callers |-> IdleCaller]

\* the library loaded and the application deployed on an empty database
Init ==
    /\ CalcInit
    /\ users = [u \in Usernames |-> Unregistered]
    /\ accounts = [u \in Usernames |-> NoAccount]
    /\ session = [c \in Clients |-> Anonymous]
    /\ response = NoResponse
    /\ obj = NoObject
    /\ lastcall = NoCall
    /\ requests = [c \in Clients |-> NoRequest]
    /\ ledger = NoLedger

\* a call of a function without a loop: it returns or raises at once
Finish(fn, args, tie, result) ==
    /\ pc' = "done"
    /\ call' = [fn |-> fn, args |-> args, tie |-> tie]
    /\ outcome' = result
    /\ UNCHANGED <<bal, month, nmonths, callers, bankVars>>

CallEmi ==
    /\ pc = "idle"
    /\ \E P \in Principals, r \in AnnualRates, t \in Durations, tie \in Tie :
           /\ Compoundable(r, t)
           /\ Finish("emi", <<P, r, t>>, tie, calculate_emi(P, r, t, tie))

CallSip ==
    /\ pc = "idle"
    /\ \E a \in MonthlyAmounts, r \in AnnualRates, y \in Durations, tie \in Tie :
           /\ Compoundable(r, y)
           /\ Finish("sip", <<a, r, y>>, tie, calculate_sip(a, r, y, tie))

CallRd ==
    /\ pc = "idle"
    /\ \E a \in MonthlyAmounts, r \in AnnualRates, y \in Durations, tie \in Tie :
           /\ Compoundable(r, y)
           /\ Finish("rd", <<a, r, y>>, tie, calculate_rd(a, r, y, tie))

CallFd ==
    /\ pc = "idle"
    /\ \E P \in FdPrincipals, r \in FdRates, t \in FdYears, f \in Frequencies, tie \in Tie :
           /\ FdExact(t, f)
           /\ Finish("fd", <<P, r, t, f>>, tie, calculate_fd(P, r, t, f, tie))

CallRetire ==
    /\ pc = "idle"
    /\ \E S \in MonthlyAmounts, a \in MonthlyAmounts, r \in AnnualRates, y \in Durations,
          tie \in Tie :
           /\ Compoundable(r, y)
           /\ Finish("retire", <<S, a, r, y>>, tie,
                     estimate_retirement_corpus(S, a, r, y, tie))

CallHome ==
    /\ pc = "idle"
    /\ \E mi \in Incomes, me \in Expenses, r \in HomeRates, t \in HomeTenures,
          mpe \in EmiPercents, tie \in Tie :
           /\ Compoundable(r, t)
           /\ Finish("home", <<mi, me, r, t, mpe>>, tie,
                     estimate_home_loan_eligibility(mi, me, r, t, mpe, tie))

CallTax ==
    /\ pc = "idle"
    /\ \E gi \in GrossIncomes, sd \in Deductions, od \in Deductions, tie \in Tie :
           Finish("tax", <<gi, sd, od>>, tie, calculate_taxable_income(gi, sd, od, tie))

CallBudget ==
    /\ pc = "idle"
    /\ \E mi \in Incomes, me \in Expenses, tie \in Tie :
           Finish("budget", <<mi, me>>, tie, plan_budget(mi, me, tie))

CallNetWorth ==
    /\ pc = "idle"
    /\ \E assets \in Lists, liabilities \in Lists, tie \in Tie :
           Finish("networth", <<assets, liabilities>>, tie,
                  calculate_net_worth(assets, liabilities, tie))

\* calculate_credit_card_balance up to its loop: it raises, or enters the loop
\* with the balance passed and nmonths (the m of the code) months to go
CreditCardStart ==
    /\ pc = "idle"
    /\ \E b \in Balances, mi \in InterestPercents, mp \in PaymentPercents, mo \in Months,
          tie \in Tie :
           LET checks == CreditCardChecks(b, mi, mp, mo)
           IN  /\ call' = [fn |-> "cc", args |-> <<b, mi, mp, mo>>, tie |-> tie]
               /\ UNCHANGED <<callers, bankVars>>
               /\ IF checks.kind # "none"
                  THEN /\ pc' = "done"
                       /\ outcome' = checks
                       /\ UNCHANGED <<bal, month, nmonths>>
                  ELSE /\ pc' = "cc_loop"
                       /\ outcome' = NoOutcome
                       /\ bal' = to_float(b)
                       /\ month' = 0
                       /\ nmonths' = MonthsToSimulate(mo)

\* for _ in range(m): one month
CreditCardIterate ==
    /\ pc = "cc_loop"
    /\ month < nmonths
    /\ bal' = CreditCardMonth(bal, to_float(call.args[2]), to_float(call.args[3]))
    /\ month' = month + 1
    /\ UNCHANGED <<pc, call, outcome, nmonths, callers, bankVars>>

\* return round(bal, 2)
CreditCardReturn ==
    /\ pc = "cc_loop"
    /\ month = nmonths
    /\ pc' = "done"
    /\ outcome' = Ok(Round2(bal, call.tie))
    /\ UNCHANGED <<call, bal, month, nmonths, callers, bankVars>>

\* the caller takes the outcome; the locals of the call are gone
Return ==
    /\ pc = "done"
    /\ pc' = "idle"
    /\ call' = Idle
    /\ outcome' = NoOutcome
    /\ bal' = Zero
    /\ month' = 0
    /\ nmonths' = 0
    /\ UNCHANGED <<callers, bankVars>>

Next ==
    \/ CallEmi
    \/ CallSip
    \/ CallFd
    \/ CallRd
    \/ CallRetire
    \/ CallHome
    \/ CreditCardStart
    \/ CreditCardIterate
    \/ CreditCardReturn
    \/ CallTax
    \/ CallBudget
    \/ CallNetWorth
    \/ Return

Spec == Init /\ [][Next]_vars

-----------------------------------------------------------------------------
(* Reading a finished call *)

Returned(fn) == pc = "done" /\ call.fn = fn

\* every (scalar) argument of the call converts to a float
AllNumeric == \A i \in DOMAIN call.args : IsNumeric(call.args[i])

\* the i-th argument as a float, when it converts
ArgVal(i) == to_float(call.args[i])

\* some argument of the call, or some item of a list argument, is not a number
SomeArgumentNotNumeric ==
    IF call.fn = "networth"
    THEN \E l \in 1..2 :
             \/ ~call.args[l].islist
             \/ \E i \in DOMAIN call.args[l].items : ~IsNumeric(call.args[l].items[i])
    ELSE ~AllNumeric

-----------------------------------------------------------------------------
(* C1: in every calculator a call with a non-numeric argument (the compounding
   frequency of calculate_fd and the items of the net-worth lists included)
   fails with a TypeError, never a ValueError, whatever domain constraint
   another argument or item violates. *)
C1_CoercionBeforeDomainChecks ==
    (pc = "done" /\ SomeArgumentNotNumeric) => outcome.kind = "TypeError"

(* C2: calculate_emi has no error path beyond input validation: a call fails
   only with a TypeError or a ValueError, and every call with principal > 0,
   annual_rate_percent >= 0 and tenure_years > 0 returns an EMI. *)
C2_EmiFailsOnlyInValidation ==
    Returned("emi") =>
        /\ outcome.kind \in {"ok", "TypeError", "ValueError"}
        /\ (AllNumeric /\ RLt(Zero, ArgVal(1)) /\ RLe(Zero, ArgVal(2)) /\ RLt(Zero, ArgVal(3)))
               => outcome.kind = "ok"

(* C3: estimate_home_loan_eligibility fails with a ValueError whenever
   max_emi_percent is outside [0, 100] or the tenure rounds to n <= 0 months
   (all arguments being numbers), and with max_emi_percent = 0 every otherwise
   valid call returns exactly 0.00. *)
C3_HomeLoanRangeAndZeroPercent ==
    (Returned("home") /\ AllNumeric) =>
        /\ (RLt(ArgVal(5), Zero) \/ RLt(Rat(100), ArgVal(5))
                \/ PyRound(RMul(ArgVal(4), Rat(12))) <= 0)
               => outcome.kind = "ValueError"
        /\ (/\ RLe(Zero, ArgVal(1)) /\ RLe(Zero, ArgVal(2)) /\ RLe(Zero, ArgVal(3))
            /\ PyRound(RMul(ArgVal(4), Rat(12))) >= 1
            /\ ArgVal(5) = Zero)
               => (outcome.kind = "ok" /\ outcome.value = Zero)

\* a call with a positive disposable income, a non-zero rate and
\* max_emi_percent = 0 has returned 0.00
C3_Witness ==
    /\ Returned("home") /\ AllNumeric
    /\ ArgVal(5) = Zero
    /\ RLt(Zero, ArgVal(2)) /\ RLt(ArgVal(2), ArgVal(1))
    /\ RLt(Zero, ArgVal(3))
    /\ outcome.kind = "ok" /\ outcome.value = Zero

\* the first item of a list that is not a number or is negative (0: none)
FirstInvalid(items) ==
    LET bad == {i \in DOMAIN items :
                    ~IsNumeric(items[i]) \/ RLt(to_float(items[i]), Zero)}
    IN  IF bad = {} THEN 0 ELSE CHOOSE i \in bad : \A j \in bad : i <= j

(* C4: every failure a calculator raises carries a message that names the single
   offending parameter and the violated constraint; for calculate_net_worth
   the error for the first invalid item names that item's position. *)
C4_ErrorsNameParameterAndConstraint ==
    (pc = "done" /\ outcome.kind \in {"TypeError", "ValueError"}) =>
        /\ Cardinality(outcome.params) = 1
        /\ outcome.constraint # ""
        /\ (call.fn = "networth" /\ call.args[1].islist /\ call.args[2].islist) =>
               LET a == FirstInvalid(call.args[1].items)
                   l == FirstInvalid(call.args[2].items)
               IN  outcome.index = (IF a # 0 THEN a - 1 ELSE l - 1)

RECURSIVE SumOf(_)
SumOf(items) ==
    IF items = <<>> THEN Zero ELSE RAdd(to_float(Head(items)), SumOf(Tail(items)))

ItemsNumeric(items) == \A i \in DOMAIN items : IsNumeric(items[i])
SomeNegative(items) ==
    \E i \in DOMAIN items : IsNumeric(items[i]) /\ RLt(to_float(items[i]), Zero)

(* C5: for lists of numbers calculate_net_worth returns sum(assets) -
   sum(liabilities) rounded to 2 decimals when no item is negative
   ([100000, 50000], [20000] gives 130000.00) and raises a ValueError when some
   item of either list is negative; a call with a negative item anywhere never
   returns a value. *)
C5_NetWorthSumOrValueError ==
    (Returned("networth") /\ call.args[1].islist /\ call.args[2].islist) =>
        LET assets == call.args[1].items
            liabilities == call.args[2].items
        IN  /\ (ItemsNumeric(assets) /\ ItemsNumeric(liabilities)) =>
                   IF SomeNegative(assets) \/ SomeNegative(liabilities)
                   THEN outcome.kind = "ValueError"
                   ELSE /\ outcome.kind = "ok"
                        /\ outcome.value
                               = Round2(RSub(SumOf(assets), SumOf(liabilities)), call.tie)
            /\ (SomeNegative(assets) \/ SomeNegative(liabilities)) =>
                   (outcome.kind \in {"ValueError", "TypeError"} /\ outcome.value = Zero)
            /\ (/\ assets = <<Num(100000, 1), Num(50000, 1)>>
                /\ liabilities = <<Num(20000, 1)>>) => outcome.value = Rat(130000)

\* the negative item is the last one looked at: the assets and the first
\* liability were summed, and no value comes back
C5_Witness ==
    /\ Returned("networth")
    /\ call.args[1] = List(<<Num(100000, 1), Num(50000, 1)>>)
    /\ call.args[2] = List(<<Num(20000, 1), Num(-100, 1)>>)
    /\ outcome.kind = "ValueError"
    /\ outcome.value = Zero

\* a step of the credit-card loop
InCreditCardLoop == pc = "cc_loop" /\ call.fn = "cc"

\* the payment covers the interest: (1 + mi/100) * (1 - mp/100) <= 1
PaymentCoversInterest(mi, mp) ==
    RLe(RMul(RAdd(Rat(100), mi), RSub(Rat(100), mp)), Rat(10000))

(* C6 as stated: whenever minimum_payment_percent > 0 the simulated balance
   never increases from one month to the next, whatever the interest. *)
C6_BalanceNeverIncreases ==
    [][(InCreditCardLoop /\ month' = month + 1 /\ RLt(Zero, ArgVal(3)))
           => RLe(bal', bal)]_vars

(* C6, amended: with minimum_payment_percent > 0 the simulated balance never
   increases from one month to the next provided the payment covers the
   interest, (100 + monthly_interest_percent) * (100 - minimum_payment_percent)
   <= 10000; with a larger interest it grows. *)
C6_BalanceNeverIncreasesWhenCovered ==
    [][(/\ InCreditCardLoop /\ month' = month + 1
        /\ RLt(Zero, ArgVal(3))
        /\ PaymentCoversInterest(ArgVal(2), ArgVal(3)))
           => RLe(bal', bal)]_vars

\* two months simulated at an interest the payment covers: the balance is
\* below the one passed, and not yet zero
C6_Witness ==
    /\ InCreditCardLoop /\ month >= 2
    /\ RLt(Zero, ArgVal(2)) /\ RLt(Zero, ArgVal(3))
    /\ PaymentCoversInterest(ArgVal(2), ArgVal(3))
    /\ RLt(bal, ArgVal(1)) /\ RLt(Zero, bal)

(* C7: calculate_credit_card_balance accepts months only when it is a positive
   integer (0, negative and non-integral months raise a ValueError), and an
   accepted call simulates exactly the number of months passed. *)
C7_MonthsIsPositiveInteger ==
    (/\ call.fn = "cc" /\ AllNumeric
     /\ RLe(Zero, ArgVal(1)) /\ RLe(Zero, ArgVal(2)) /\ RLe(Zero, ArgVal(3))) =>
        IF IsIntegral(ArgVal(4)) /\ ArgVal(4)[1] >= 1
        THEN /\ pc = "done" => outcome.kind = "ok"
             /\ nmonths = ArgVal(4)[1]
             /\ pc = "done" => month = ArgVal(4)[1]
        ELSE pc = "done" /\ outcome.kind = "ValueError"

\* a call of calculate_fd with P > 0, r > 0, t > 0 and a frequency >= 1
FdValidWithInterest ==
    /\ Returned("fd") /\ IsNumeric(call.args[1]) /\ IsNumeric(call.args[2])
    /\ IsNumeric(call.args[3])
    /\ RLt(Zero, ArgVal(1)) /\ RLt(Zero, ArgVal(2)) /\ RLt(Zero, ArgVal(3))
    /\ IntOf(call.args[4]).kind = "ok" /\ IntOf(call.args[4]).value[1] >= 1

(* C8 as stated: calculate_fd with P > 0, r > 0, t > 0 and a frequency >= 1
   returns an amount strictly greater than P. *)
C8_FdExceedsPrincipal ==
    FdValidWithInterest => (outcome.kind = "ok" /\ RLt(ArgVal(1), outcome.value))

(* C8, amended: calculate_fd with P > 0, r > 0, t > 0 and a frequency >= 1
   returns an amount greater than P - 0.005, and at least P when P has at most
   two decimals: the interest may round away. *)
C8_FdAtLeastPrincipal ==
    FdValidWithInterest =>
        /\ outcome.kind = "ok"
        /\ RLt(RSub(ArgVal(1), <<1, 200>>), outcome.value)
        /\ IsIntegral(RMul(ArgVal(1), Rat(100))) => RLe(ArgVal(1), outcome.value)

\* a deposit whose interest rounds away: the amount returned is the principal
C8_Witness == FdValidWithInterest /\ outcome.kind = "ok" /\ outcome.value = ArgVal(1)

\* a call of calculate_emi with principal > 0, rate >= 0 and tenure > 0
EmiValid ==
    /\ Returned("emi") /\ AllNumeric
    /\ RLt(Zero, ArgVal(1)) /\ RLe(Zero, ArgVal(2)) /\ RLt(Zero, ArgVal(3))

\* the higher rates the same call could have been made with
HigherRates ==
    {r \in AnnualRates :
        IsNumeric(r) /\ RLt(ArgVal(2), to_float(r)) /\ Compoundable(r, call.args[3])}

(* C9 as stated: for a fixed principal and tenure the rounded EMI returned
   strictly increases with annual_rate_percent. *)
C9_EmiStrictlyIncreasing ==
    EmiValid =>
        \A r2 \in HigherRates, tie2 \in Tie :
            LET other == calculate_emi(call.args[1], r2, call.args[3], tie2)
            IN  (outcome.kind = "ok" /\ other.kind = "ok")
                    => RLt(outcome.value, other.value)

(* C9, amended: for a fixed principal and tenure the rounded EMI returned never
   decreases when annual_rate_percent increases (two rates may round to the
   same EMI), and the two calls return or fail alike. *)
C9_EmiNonDecreasing ==
    EmiValid =>
        \A r2 \in HigherRates, tie2 \in Tie :
            LET other == calculate_emi(call.args[1], r2, call.args[3], tie2)
            IN  /\ other.kind = outcome.kind
                /\ outcome.kind = "ok" => RLe(outcome.value, other.value)

\* a loan at rate 0 for which a higher rate rounds to the same EMI
C9_Witness ==
    /\ EmiValid /\ ArgVal(2) = Zero /\ outcome.kind = "ok"
    /\ \E r2 \in HigherRates :
           calculate_emi(call.args[1], r2, call.args[3], call.tie).value = outcome.value

\* a valid call of fn at rate 0 (its rate is argument r, its duration argument y)
ZeroRateCall(fn, r, y) ==
    /\ Returned(fn) /\ AllNumeric
    /\ \A i \in DOMAIN call.args : RLe(Zero, ArgVal(i))
    /\ ArgVal(r) = Zero /\ RLt(Zero, ArgVal(y))
    /\ (fn = "emi" => RLt(Zero, ArgVal(1)))

\* n = round(years * 12), years being argument y
Months12(y) == PyRound(RMul(ArgVal(y), Rat(12)))

(* C10 as stated: at rate 0 the results are exact: calculate_emi returns
   principal / n, calculate_sip and calculate_rd return monthly_amount * n,
   estimate_retirement_corpus returns current_savings + monthly_addition * n. *)
C10_ZeroRateExact ==
    /\ (ZeroRateCall("emi", 2, 3) /\ outcome.kind = "ok")
           => outcome.value = RDiv(ArgVal(1), Rat(Months12(3)))
    /\ ZeroRateCall("sip", 2, 3) => outcome.value = RMul(ArgVal(1), Rat(Months12(3)))
    /\ ZeroRateCall("rd", 2, 3) => outcome.value = RMul(ArgVal(1), Rat(Months12(3)))
    /\ ZeroRateCall("retire", 3, 4)
           => outcome.value = RAdd(ArgVal(1), RMul(ArgVal(2), Rat(Months12(4))))

(* C10, amended: at rate 0, with n = round(years * 12), calculate_emi returns
   principal / n rounded to 2 decimals when n >= 1 and raises
   ZeroDivisionError when n = 0; calculate_sip and calculate_rd return
   monthly_amount * n rounded to 2 decimals; estimate_retirement_corpus returns
   current_savings + monthly_addition * n rounded to 2 decimals
   (calculate_emi(120000, 0, 1) = 10000.00, calculate_sip(1000, 0, 2) =
   24000.00). *)
C10_ZeroRateRoundedLinear ==
    /\ ZeroRateCall("emi", 2, 3) =>
           IF Months12(3) = 0 THEN outcome.kind = "ZeroDivisionError"
           ELSE /\ outcome.kind = "ok"
                /\ outcome.value = Round2(RDiv(ArgVal(1), Rat(Months12(3))), call.tie)
                /\ (ArgVal(1) = Rat(120000) /\ ArgVal(3) = One)
                       => outcome.value = Rat(10000)
    /\ ZeroRateCall("sip", 2, 3) =>
           /\ outcome.kind = "ok"
           /\ outcome.value = Round2(RMul(ArgVal(1), Rat(Months12(3))), call.tie)
           /\ (ArgVal(1) = Rat(1000) /\ ArgVal(3) = Rat(2)) => outcome.value = Rat(24000)
    /\ ZeroRateCall("rd", 2, 3) =>
           /\ outcome.kind = "ok"
           /\ outcome.value = Round2(RMul(ArgVal(1), Rat(Months12(3))), call.tie)
    /\ ZeroRateCall("retire", 3, 4) =>
           /\ outcome.kind = "ok"
           /\ outcome.value
                  = Round2(RAdd(ArgVal(1), RMul(ArgVal(2), Rat(Months12(4)))), call.tie)

\* a zero-rate loan over a tenure that rounds up to 2 months (1.5 -> 2) whose
\* instalment is not a whole number of cents before rounding
C10_Witness ==
    /\ ZeroRateCall("emi", 2, 3) /\ outcome.kind = "ok"
    /\ ArgVal(3) = <<1, 8>>
    /\ outcome.value # RDiv(ArgVal(1), Rat(2))
    /\ outcome.value = Round2(RDiv(ArgVal(1), Rat(2)), call.tie)

-----------------------------------------------------------------------------
(* plan_budget and calculate_taxable_income *)

\* the tier of the policy table for an income and expenses that are not
\* negative, the ratio expenses / income compared by cross-multiplication
PolicyTier(income, expenses) ==
    IF income = Zero THEN Zero
    ELSE IF RLe(RMul(expenses, Rat(10)), RMul(income, Rat(7))) THEN Rat(20)
    ELSE IF RLe(RMul(expenses, Rat(10)), RMul(income, Rat(9))) THEN Rat(10)
    ELSE Zero

\* plan_budget was called with an income and expenses that are numbers >= 0
BudgetValid ==
    /\ Returned("budget") /\ AllNumeric
    /\ RLe(Zero, ArgVal(1)) /\ RLe(Zero, ArgVal(2))

(* C11: for every income >= 0 and expenses >= 0 plan_budget returns (it
   raises nothing, a zero income included) the tier of the policy table as
   recommended_savings_percent: 0 when the income is 0, otherwise 20 when
   expenses / income <= 0.70, 10 when 0.70 < expenses / income <= 0.90 and 0
   above 0.90; savings_target is income * percent / 100 and
   surplus_or_deficit is income - expenses (negative when the expenses are
   higher), both to two decimals. *)
C11_BudgetPolicyTable ==
    BudgetValid =>
        /\ outcome.kind = "ok"
        /\ outcome.value.recommended_savings_percent = PolicyTier(ArgVal(1), ArgVal(2))
        /\ outcome.value.savings_target
               = Round2(RDiv(RMul(ArgVal(1), PolicyTier(ArgVal(1), ArgVal(2))), Rat(100)),
                        call.tie)
        /\ outcome.value.surplus_or_deficit = Round2(RSub(ArgVal(1), ArgVal(2)), call.tie)

\* a budget whose expenses are exactly 90% of a positive income was put in
\* the 10% tier, with a savings target of a tenth of the income
C11_Witness ==
    /\ BudgetValid /\ RLt(Zero, ArgVal(1))
    /\ RMul(ArgVal(2), Rat(10)) = RMul(ArgVal(1), Rat(9))
    /\ outcome.kind = "ok"
    /\ outcome.value.recommended_savings_percent = Rat(10)
    /\ outcome.value.savings_target = RDiv(ArgVal(1), Rat(10))

(* C12: calculate_taxable_income raises a ValueError when one of its (numeric)
   arguments is negative, and otherwise returns max(0, gross - standard
   deduction - other deductions) to two decimals: never a negative amount,
   0.00 when the deductions exceed the gross income, and 45000.00 for
   (100000, 50000, 5000). *)
C12_TaxableIncomeClamped ==
    (Returned("tax") /\ AllNumeric) =>
        IF \E i \in 1..3 : RLt(ArgVal(i), Zero) THEN outcome.kind = "ValueError"
        ELSE LET net == RSub(RSub(ArgVal(1), ArgVal(2)), ArgVal(3))
             IN  /\ outcome.kind = "ok"
                 /\ RLe(Zero, outcome.value)
                 /\ outcome.value = Round2(IF RLt(net, Zero) THEN Zero ELSE net, call.tie)
                 /\ RLt(net, Zero) => outcome.value = Zero
                 /\ (ArgVal(1) = Rat(100000) /\ ArgVal(2) = Rat(50000)
                         /\ ArgVal(3) = Rat(5000))
                        => outcome.value = Rat(45000)

\* deductions above a positive gross income were clamped to 0.00
C12_Witness ==
    /\ Returned("tax") /\ AllNumeric
    /\ RLt(Zero, ArgVal(1))
    /\ RLe(Zero, ArgVal(2)) /\ RLe(Zero, ArgVal(3))
    /\ RLt(ArgVal(1), RAdd(ArgVal(2), ArgVal(3)))
    /\ outcome.kind = "ok" /\ outcome.value = Zero

-----------------------------------------------------------------------------
(* The loop of calculate_credit_card_balance *)

\* the balance after k months by the rule of the description: interest on the
\* balance first, then a payment of mp percent of the balance with interest,
\* the remainder never below zero
RECURSIVE BalanceAfter(_, _, _, _)
BalanceAfter(b, mi, mp, k) ==
    IF k = 0 THEN b
    ELSE LET grown == RMul(BalanceAfter(b, mi, mp, k - 1), RAdd(One, RDiv(mi, Rat(100))))
             left == RSub(grown, RDiv(RMul(grown, mp), Rat(100)))
         IN  IF RLt(left, Zero) THEN Zero ELSE left

(* C18: the loop of calculate_credit_card_balance runs exactly `months`
   iterations and then returns: it never runs past them and never leaves
   early (a balance of 0 stays 0 in the iterations that follow); every
   iteration applies the interest first and then takes minimum_payment_percent
   of the balance with interest, floored at zero, so that the balance is >= 0
   after every iteration, minimum_payment_percent > 100 included. *)
C18_FixedLengthLoop ==
    /\ InCreditCardLoop =>
           /\ month <= nmonths
           /\ RLe(Rat(month), ArgVal(4))
           /\ RLe(Zero, bal)
           /\ bal = BalanceAfter(ArgVal(1), ArgVal(2), ArgVal(3), month)
    /\ (Returned("cc") /\ outcome.kind = "ok") =>
           /\ Rat(month) = ArgVal(4)
           /\ outcome.value
                  = Round2(BalanceAfter(ArgVal(1), ArgVal(2), ArgVal(3), month), call.tie)

-----------------------------------------------------------------------------
(* The principal of estimate_home_loan_eligibility *)

\* min(max(0, income - expenses), income * max_emi_percent / 100)
ClaimedCap(income, expenses, percent) ==
    LET disposable == IF RLt(income, expenses) THEN Zero ELSE RSub(income, expenses)
        allowed == RDiv(RMul(income, percent), Rat(100))
    IN  IF RLt(allowed, disposable) THEN allowed ELSE disposable

\* cap * n at rate 0, else cap * ((1+r)^n - 1) / (r * (1+r)^n)
ClaimedPrincipal(cap, r, n) ==
    IF r = Zero THEN RMul(cap, Rat(n))
    ELSE RDiv(RMul(cap, RSub(RPow(RAdd(One, r), n), One)),
              RMul(r, RPow(RAdd(One, r), n)))

\* the arguments of the call pass every check of the function
HomeInputValid ==
    /\ Returned("home") /\ AllNumeric
    /\ RLe(Zero, ArgVal(1)) /\ RLe(Zero, ArgVal(2)) /\ RLe(Zero, ArgVal(3))
    /\ RLe(Zero, ArgVal(5)) /\ RLe(ArgVal(5), Rat(100))
    /\ PyRound(RMul(ArgVal(4), Rat(12))) >= 1

(* C19: a call of estimate_home_loan_eligibility that passes validation
   returns, to two decimals, the principal emi_cap * n at a zero rate and
   emi_cap * ((1+r)^n - 1) / (r * (1+r)^n) otherwise, for emi_cap =
   min(max(0, income - expenses), income * max_emi_percent / 100), r the
   monthly rate and n the tenure in months; the principal is never negative,
   and it is 0.00 whenever monthly_expenses >= monthly_income. *)
C19_HomeLoanPrincipal ==
    /\ HomeInputValid => outcome.kind = "ok"
    /\ (Returned("home") /\ outcome.kind = "ok") =>
           LET cap == ClaimedCap(ArgVal(1), ArgVal(2), ArgVal(5))
               r == RDiv(ArgVal(3), Rat(1200))
               n == PyRound(RMul(ArgVal(4), Rat(12)))
           IN  /\ outcome.value = Round2(ClaimedPrincipal(cap, r, n), call.tie)
               /\ RLe(Zero, outcome.value)
               /\ RLe(ArgVal(1), ArgVal(2)) => outcome.value = Zero

\* with expenses above a positive income, a rate and a cap percentage above
\* zero, the principal returned is 0.00
C19_Witness ==
    /\ HomeInputValid
    /\ RLt(Zero, ArgVal(1)) /\ RLt(ArgVal(1), ArgVal(2))
    /\ RLt(Zero, ArgVal(3)) /\ RLt(Zero, ArgVal(5))
    /\ outcome.kind = "ok" /\ outcome.value = Zero

-----------------------------------------------------------------------------
(* calculate_rd against calculate_sip *)

(* C20: calculate_rd and calculate_sip agree on every triple (amount, annual
   rate, years): called with the same arguments, both return the same
   rounded amount or both fail with the same kind of error. *)
C20_RdSameAsSip ==
    /\ Returned("sip") =>
           LET rd == calculate_rd(call.args[1], call.args[2], call.args[3], call.tie)
           IN  rd.kind = outcome.kind /\ rd.value = outcome.value
    /\ Returned("rd") =>
           LET sip == calculate_sip(call.args[1], call.args[2], call.args[3], call.tie)
           IN  sip.kind = outcome.kind /\ sip.value = outcome.value

\* a recurring deposit at a rate above zero over two months or more returned
\* what calculate_sip returns, more than the sum of the deposits
C20_Witness ==
    /\ Returned("rd") /\ outcome.kind = "ok"
    /\ RLt(Zero, ArgVal(1)) /\ RLt(Zero, ArgVal(2))
    /\ PyRound(RMul(ArgVal(3), Rat(12))) >= 2
    /\ outcome.value
           = calculate_sip(call.args[1], call.args[2], call.args[3], call.tie).value
    /\ RLt(RMul(ArgVal(1), Rat(PyRound(RMul(ArgVal(3), Rat(12))))), outcome.value)

-----------------------------------------------------------------------------
(* Several callers of the library at once.  Every caller has its own call in
   progress; the calls without a loop return in one step, the credit-card
   simulation advances month by month, and the steps of the callers
   interleave in any order. *)

\* the calls the concurrent callers choose from: for every function one that
\* returns and one that raises
SampleCalls ==
    {[fn |-> "emi", args |-> <<P, Num(120, 1), Num(1, 6)>>, tie |-> 0] :
         P \in {Num(120000, 1), BadStr}}
    \cup {[fn |-> "sip", args |-> <<Num(1000, 1), r, Num(1, 4)>>, tie |-> 0] :
              r \in {Num(120, 1), Num(-1, 1)}}
    \cup {[fn |-> "rd", args |-> <<Num(1000, 1), Num(0, 1), y>>, tie |-> 0] :
              y \in {Num(2, 1), Num(0, 1)}}
    \cup {[fn |-> "fd", args |-> <<Num(100, 1), Num(10, 1), Num(1, 1), f>>, tie |-> 0] :
              f \in {Num(2, 1), BadStr}}
    \cup {[fn |-> "retire", args |-> <<S, Num(1000, 1), Num(0, 1), Num(1, 1)>>, tie |-> 0] :
              S \in {Num(1000, 1), None}}
    \cup {[fn |-> "home", args |-> <<Num(1000, 1), Num(400, 1), Num(0, 1), Num(1, 1), e>>,
           tie |-> 0] : e \in {Num(50, 1), Num(200, 1)}}
    \cup {[fn |-> "tax", args |-> <<Num(1000, 1), d, Num(0, 1)>>, tie |-> t] :
              d \in {Num(1, 8), Num(-1, 1)}, t \in Tie}
    \cup {[fn |-> "budget", args |-> <<mi, Num(700, 1)>>, tie |-> 0] :
              mi \in {Num(1000, 1), Num(-1, 1)}}
    \cup {[fn |-> "networth", args |-> <<List(<<Num(100000, 1)>>), l>>, tie |-> 0] :
              l \in {List(<<Num(20000, 1)>>), NotAList}}

\* the credit-card simulations they choose from: over 0, 1 and 2 months
SampleSimulations ==
    {[fn |-> "cc", args |-> <<Num(1000, 1), Num(25, 1), Num(20, 1), Num(k, 1)>>, tie |-> 0] :
         k \in 0..2}

\* the function of the library a call names, applied to the arguments of the call
Apply(k) ==
    CASE k.fn = "emi" -> calculate_emi(k.args[1], k.args[2], k.args[3], k.tie)
      [] k.fn = "sip" -> calculate_sip(k.args[1], k.args[2], k.args[3], k.tie)
      [] k.fn = "rd" -> calculate_rd(k.args[1], k.args[2], k.args[3], k.tie)
      [] k.fn = "fd" -> calculate_fd(k.args[1], k.args[2], k.args[3], k.args[4], k.tie)
      [] k.fn = "retire" ->
             estimate_retirement_corpus(k.args[1], k.args[2], k.args[3], k.args[4], k.tie)
      [] k.fn = "home" ->
             estimate_home_loan_eligibility(k.args[1], k.args[2], k.args[3], k.args[4],
                                            k.args[5], k.tie)
      [] k.fn = "tax" -> calculate_taxable_income(k.args[1], k.args[2], k.args[3], k.tie)
      [] k.fn = "budget" -> plan_budget(k.args[1], k.args[2], k.tie)
      [] k.fn = "networth" -> calculate_net_worth(k.args[1], k.args[2], k.tie)

\* a balance kept in one place for all the callers
SharedLoopBalance(c) == callers[1].bal

\* bal is a local of the call: a caller reads the balance of its own call
LoopBalance(c) == callers[c].bal

\* a caller calls a function without a loop: it returns or raises at once
CallerCalls ==
    /\ \E c \in Callers :
           /\ callers[c].pc = "idle"
           /\ \E k \in SampleCalls :
                  callers' = [callers EXCEPT ![c] =
                                  [IdleCaller EXCEPT !.pc = "done", !.call = k,
                                                     !.outcome = Apply(k)]]
    /\ UNCHANGED <<calcVars, bankVars>>

\* a caller calls calculate_credit_card_balance: it raises or enters the loop
CallerCreditCardStart ==
    /\ \E c \in Callers :
           /\ callers[c].pc = "idle"
           /\ \E k \in SampleSimulations :
                  LET checks == CreditCardChecks(k.args[1], k.args[2], k.args[3], k.args[4])
                  IN  callers' = [callers EXCEPT ![c] =
                                      IF checks.kind # "none"
                                      THEN [IdleCaller EXCEPT !.pc = "done", !.call = k,
                                                              !.outcome = checks]
                                      ELSE [pc |-> "cc_loop", call |-> k,
                                            outcome |-> NoOutcome,
                                            bal |-> to_float(k.args[1]), month |-> 0,
                                            nmonths |-> MonthsToSimulate(k.args[4])]]
    /\ UNCHANGED <<calcVars, bankVars>>

\* one month of the loop of one caller
CallerCreditCardIterate ==
    /\ \E c \in Callers :
           /\ callers[c].pc = "cc_loop"
           /\ callers[c].month < callers[c].nmonths
           /\ callers' = [callers EXCEPT
                              ![c].bal = CreditCardMonth(LoopBalance(c),
                                                         to_float(callers[c].call.args[2]),
                                                         to_float(callers[c].call.args[3])),
                              ![c].month = @ + 1]
    /\ UNCHANGED <<calcVars, bankVars>>

\* the loop of a caller is over: return round(bal, 2)
CallerCreditCardReturn ==
    /\ \E c \in Callers :
           /\ callers[c].pc = "cc_loop"
           /\ callers[c].month = callers[c].nmonths
           /\ callers' = [callers EXCEPT
                              ![c].pc = "done",
                              ![c].outcome = Ok(Round2(LoopBalance(c), callers[c].call.tie))]
    /\ UNCHANGED <<calcVars, bankVars>>

\* a caller takes its outcome; the locals of its call are gone
CallerReturn ==
    /\ \E c \in Callers :
           /\ callers[c].pc = "done"
           /\ callers' = [callers EXCEPT ![c] = IdleCaller]
    /\ UNCHANGED <<calcVars, bankVars>>

NextCallers ==
    \/ CallerCalls
    \/ CallerCreditCardStart
    \/ CallerCreditCardIterate
    \/ CallerCreditCardReturn
    \/ CallerReturn

SpecCallers == Init /\ [][NextCallers]_vars

\* caller c holds the outcome of a call
HasOutcome(c) == callers[c].pc = "done"

(* C13: the calculators are pure and deterministic: whenever two callers hold
   the outcome of calls with identical arguments, however their calls and
   the calls of the other callers were interleaved, the two outcomes are the
   same (the same rounded result or the same error), and a credit-card
   simulation returns what it returns when it runs alone: no call reads or
   writes anything but its own arguments and locals. *)
C13_SameCallSameOutcome ==
    /\ \A c, d \in Callers :
           (/\ HasOutcome(c) /\ HasOutcome(d)
            /\ callers[c].call.fn = callers[d].call.fn
            /\ callers[c].call = callers[d].call)
               => callers[c].outcome = callers[d].outcome
    /\ \A c \in Callers :
           (HasOutcome(c) /\ callers[c].call.fn = "cc" /\ callers[c].outcome.kind = "ok")
               => callers[c].outcome.value
                      = Round2(BalanceAfter(to_float(callers[c].call.args[1]),
                                            to_float(callers[c].call.args[2]),
                                            to_float(callers[c].call.args[3]),
                                            Trunc(to_float(callers[c].call.args[4]))),
                               callers[c].call.tie)

\* two callers hold the same outcome of the same two-month simulation
C13_Witness ==
    \E c, d \in Callers :
        /\ c # d
        /\ HasOutcome(c) /\ HasOutcome(d)
        /\ callers[c].call.fn = "cc" /\ callers[c].call = callers[d].call
        /\ callers[c].nmonths = 2
        /\ callers[c].outcome.kind = "ok"
        /\ callers[c].outcome = callers[d].outcome

-----------------------------------------------------------------------------
(* The Account model (Banking/models.py).  The balance of an instance is a
   Decimal; Decimal(amount) of a float is the exact value of the float, so
   the sums below are exact.  The balance column keeps two decimal places. *)

\* the outcome of a method of Account: what it raises, the balance of the
\* instance afterwards, and whether it reached self.save()
Rejected(kind, message, balance) ==
    [kind |-> kind, message |-> message, balance |-> balance, saved |-> FALSE]
Saved(balance) == [kind |-> "ok", message |-> "", balance |-> balance, saved |-> TRUE]

\* amount <= 0 on something that is not a number
NotComparable(balance) ==
    Rejected("TypeError", "'<=' not supported between the amount and 0", balance)

\* Account.deposit(self, amount), self.balance being balance
deposit(balance, amount) ==
    IF amount.kind # "num" THEN NotComparable(balance)
    ELSE IF RLe(amount.val, Zero)
         THEN Rejected("ValueError", "Deposit amount must be positive.", balance)
    ELSE Saved(RAdd(balance, amount.val))

\* a withdrawal without the floor check
withdraw_unchecked(balance, amount) ==
    IF amount.kind # "num" THEN NotComparable(balance)
    ELSE IF RLe(amount.val, Zero)
         THEN Rejected("ValueError", "Withdraw amount must be positive.", balance)
    ELSE Saved(RSub(balance, amount.val))

\* Account.withdraw(self, amount), self.balance being balance
withdraw(balance, amount) ==
    IF amount.kind # "num" THEN NotComparable(balance)
    ELSE IF RLe(amount.val, Zero)
         THEN Rejected("ValueError", "Withdraw amount must be positive.", balance)
    ELSE IF RLt(balance, amount.val)
         THEN Rejected("ValueError", "Insufficient balance.", balance)
    ELSE Saved(RSub(balance, amount.val))

\* what self.save() leaves in the balance column, DecimalField(max_digits=12,
\* decimal_places=2): the balance to two decimals, a balance halfway between
\* two cents going the way the database backend rounds
Stored(balance, tie) == Round2(balance, tie)

\* the rows after the method has run on the account of user
RowsAfter(user, result, tie) ==
    IF result.saved THEN [accounts EXCEPT ![user] = Stored(result.balance, tie)]
    ELSE accounts

-----------------------------------------------------------------------------
(* Calls on one Account instance, one at a time (as Banking/tests.py makes
   them on self.account) *)

\* the balance the account is created with
StartBalances == {Zero, Rat(1000)}

\* the amounts passed to deposit and withdraw
CallAmounts ==
    {Num(300, 1), Num(500, 1), Num(1000, 1), Num(5000, 1), Num(1, 8), Num(0, 1),
     Num(-5, 1), BadStr}

\* a user with an account, and the instance that stands for its row
InitAccount ==
    /\ CalcInit
    /\ users = [u \in Usernames |-> IF u = "u1" THEN "p1" ELSE Unregistered]
    /\ \E b \in StartBalances :
           /\ accounts = [u \in Usernames |-> IF u = "u1" THEN b ELSE NoAccount]
           /\ obj = [user |-> "u1", balance |-> b]
    /\ session = [c \in Clients |-> Anonymous]
    /\ response = NoResponse
    /\ lastcall = NoCall
    /\ requests = [c \in Clients |-> NoRequest]
    /\ ledger = NoLedger

\* the record of a call of op(amount) with outcome result
Called(op, amount, result) ==
    [n |-> lastcall.n + 1, op |-> op, amount |-> amount, kind |-> result.kind,
     message |-> result.message, balance_before |-> obj.balance,
     stored_before |-> accounts[obj.user]]

\* obj.deposit(amount)
AccountDeposit ==
    /\ obj # NoObject
    /\ lastcall.n < MaxCalls
    /\ \E amount \in CallAmounts, tie \in Tie :
           LET result == deposit(obj.balance, amount)
           IN  /\ obj' = [obj EXCEPT !.balance = result.balance]
               /\ accounts' = RowsAfter(obj.user, result, tie)
               /\ lastcall' = Called("deposit", amount, result)
    /\ UNCHANGED <<calcVars, callers, users, session, response, requests,
                 ledger>>

\* obj.withdraw(amount)
AccountWithdraw ==
    /\ obj # NoObject
    /\ lastcall.n < MaxCalls
    /\ \E amount \in CallAmounts, tie \in Tie :
           LET result == withdraw(obj.balance, amount)
           IN  /\ obj' = [obj EXCEPT !.balance = result.balance]
               /\ accounts' = RowsAfter(obj.user, result, tie)
               /\ lastcall' = Called("withdraw", amount, result)
    /\ UNCHANGED <<calcVars, callers, users, session, response, requests,
                 ledger>>

\* obj.refresh_from_db()
AccountRefresh ==
    /\ obj # NoObject
    /\ lastcall.op \in {"deposit", "withdraw"}
    /\ obj' = [obj EXCEPT !.balance = accounts[obj.user]]
    /\ lastcall' = [lastcall EXCEPT !.op = "refresh_from_db"]
    /\ UNCHANGED <<calcVars, callers, users, accounts, session, response, requests,
                 ledger>>

NextAccount ==
    \/ AccountDeposit
    \/ AccountWithdraw
    \/ AccountRefresh

SpecAccount == InitAccount /\ [][NextAccount]_vars

\* the last call on the instance was op with a number as amount
CalledWithNumber(op) == lastcall.op = op /\ lastcall.amount.kind = "num"

\* neither the balance of the instance nor the balance column is negative
BalanceNotNegative == RLe(Zero, obj.balance) /\ RLe(Zero, accounts[obj.user])

\* the last call left the instance and the row as they were
Untouched ==
    /\ obj.balance = lastcall.balance_before
    /\ accounts[obj.user] = lastcall.stored_before

(* C14: starting from a balance that is not negative, after every sequence of
   deposit and withdraw calls made one at a time, successful or not, the
   balance is never negative; a withdraw of more than the current balance
   is rejected with 'Insufficient balance.', and a withdraw of exactly the
   current balance succeeds and leaves 0. *)
C14_BalanceFloor ==
    /\ BalanceNotNegative
    /\ CalledWithNumber("withdraw") =>
           /\ RLt(lastcall.balance_before, lastcall.amount.val)
                  => (/\ lastcall.kind = "ValueError"
                      /\ lastcall.message = "Insufficient balance."
                      /\ Untouched)
           /\ lastcall.amount.val = lastcall.balance_before
                  => (/\ lastcall.kind = "ok"
                      /\ obj.balance = Zero
                      /\ accounts[obj.user] = Zero)

(* C14, amended: as C14, the withdraw of exactly the current balance
   succeeding and leaving 0 whenever that balance is positive; on a balance
   of 0 it is a withdraw of 0, which is rejected as not positive and leaves
   the balance at 0. *)
C14_BalanceFloorPositiveAmount ==
    /\ BalanceNotNegative
    /\ CalledWithNumber("withdraw") =>
           /\ RLt(lastcall.balance_before, lastcall.amount.val)
                  => (/\ lastcall.kind = "ValueError"
                      /\ lastcall.message = "Insufficient balance."
                      /\ Untouched)
           /\ (lastcall.amount.val = lastcall.balance_before /\ RLt(Zero, lastcall.amount.val))
                  => (/\ lastcall.kind = "ok"
                      /\ obj.balance = Zero
                      /\ accounts[obj.user] = Zero)
           /\ (lastcall.amount.val = lastcall.balance_before /\ lastcall.amount.val = Zero)
                  => (/\ lastcall.kind = "ValueError"
                      /\ lastcall.message = "Withdraw amount must be positive."
                      /\ Untouched)

\* a positive balance was withdrawn whole, after an earlier call, and 0 is left
C14_Witness ==
    /\ CalledWithNumber("withdraw") /\ lastcall.n >= 2
    /\ RLt(Zero, lastcall.balance_before)
    /\ lastcall.amount.val = lastcall.balance_before
    /\ lastcall.kind = "ok"
    /\ obj.balance = Zero /\ accounts[obj.user] = Zero

(* C15: a successful deposit(a) increases the stored balance (of the instance
   and of its row) by exactly a and a successful withdraw(a) decreases it by
   exactly a (1000 + 500 = 1500, 1000 - 300 = 700); a rejected call (an
   amount <= 0, or a withdraw of more than the balance) leaves the balance of
   the instance and the persisted balance unchanged. *)
C15_ExactBalanceChange ==
    /\ CalledWithNumber("deposit") =>
           IF RLe(lastcall.amount.val, Zero) THEN lastcall.kind # "ok" /\ Untouched
           ELSE /\ lastcall.kind = "ok"
                /\ obj.balance = RAdd(lastcall.balance_before, lastcall.amount.val)
                /\ accounts[obj.user] = RAdd(lastcall.stored_before, lastcall.amount.val)
    /\ CalledWithNumber("withdraw") =>
           IF RLe(lastcall.amount.val, Zero)
                  \/ RLt(lastcall.balance_before, lastcall.amount.val)
           THEN lastcall.kind # "ok" /\ Untouched
           ELSE /\ lastcall.kind = "ok"
                /\ obj.balance = RSub(lastcall.balance_before, lastcall.amount.val)
                /\ accounts[obj.user] = RSub(lastcall.stored_before, lastcall.amount.val)

-----------------------------------------------------------------------------
(* The views (Banking/views.py).  A request is served in one step: the view
   reads the session of the client, loads the account of request.user, runs
   the method and answers; response keeps the answer to the last request. *)

\* an authentication that does not look at the password
authenticate_any_password(username, password) ==
    IF username \in Usernames /\ users[username] # Unregistered THEN username ELSE Anonymous

\* authenticate(username=..., password=...): the user, or nobody
authenticate(username, password) ==
    IF username \in Usernames /\ users[username] # Unregistered /\ users[username] = password
    THEN username
    ELSE Anonymous

\* a check that lets every request through
AnyoneLoggedIn(user) == TRUE

\* @login_required: request.user.is_authenticated
is_authenticated(user) == user # Anonymous

\* Account.objects.get(user=request.user) finds a row
HasAccount(user) == user \in Usernames /\ accounts[user] # NoAccount

\* forms.FloatField(min_value=0.01) on the amount posted: is_valid()
AmountValid(amount) == IsNumeric(amount) /\ RLe(<<1, 100>>, to_float(amount))

\* form.cleaned_data["amount"]: a float
CleanedAmount(amount) == [kind |-> "num", val |-> to_float(amount)]

\* the tools calculator_view knows
Tools == {"emi", "sip", "fd", "rd", "retire", "home", "cc", "tax", "budget", "networth"}

\* the views behind @login_required
ProtectedViews == {"dashboard", "deposit", "withdraw", "calculator", "loan_estimator"}

\* the answer of a view to a request of client c
Respond(c, view, params, status, error) ==
    [client |-> c, view |-> view, user |-> session[c], params |-> params,
     status |-> status, error |-> error, result |-> NoResult]

\* the amounts posted to the deposit and withdraw forms: valid, below the
\* minimum, not a number, and nothing posted (a GET)
ViewAmounts == {Num(500, 1), Num(1, 200), BadStr, None}

\* the account stays within the balances the model follows
Affordable(user, amount) ==
    (HasAccount(user) /\ AmountValid(amount))
        => RLe(RAdd(accounts[user], to_float(amount)), Rat(500 * MaxDeposits))

\* home
HomeView ==
    /\ \E c \in Clients : response' = Respond(c, "home", <<>>, "page", "")
    /\ UNCHANGED <<calcVars, callers, users, accounts, session, obj, lastcall, requests, ledger>>

\* register_view: a valid form creates the user and an account with balance 0
RegisterView ==
    /\ \E c \in Clients, username \in Usernames \cup {""}, password \in Passwords \cup {""} :
           IF username \in Usernames /\ users[username] = Unregistered /\ password \in Passwords
           THEN /\ users' = [users EXCEPT ![username] = password]
                /\ accounts' = [accounts EXCEPT ![username] = Stored(Zero, 0)]
                /\ response' = Respond(c, "register", <<username, password>>,
                                       "redirect_login", "")
           ELSE /\ response' = Respond(c, "register", <<username, password>>, "page", "")
                /\ UNCHANGED <<users, accounts>>
    /\ UNCHANGED <<calcVars, callers, session, obj, lastcall, requests, ledger>>

\* login_view: a valid form whose credentials authenticate logs the client in
LoginView ==
    /\ \E c \in Clients, username \in Usernames \cup {""}, password \in Passwords \cup {""} :
           LET user == authenticate(username, password)
           IN  IF username # "" /\ password # "" /\ user # Anonymous
               THEN /\ session' = [session EXCEPT ![c] = user]
                    /\ response' = Respond(c, "login", <<username, password>>,
                                           "redirect_dashboard", "")
               ELSE /\ response' = Respond(c, "login", <<username, password>>, "page", "")
                    /\ UNCHANGED session
    /\ UNCHANGED <<calcVars, callers, users, accounts, obj, lastcall, requests, ledger>>

\* logout_view
LogoutView ==
    /\ \E c \in Clients :
           /\ session' = [session EXCEPT ![c] = Anonymous]
           /\ response' = Respond(c, "logout", <<>>, "redirect_home", "")
    /\ UNCHANGED <<calcVars, callers, users, accounts, obj, lastcall, requests, ledger>>

\* dashboard: Account.objects.get_or_create(user=request.user)
DashboardView ==
    /\ \E c \in Clients :
           IF ~is_authenticated(session[c])
           THEN /\ response' = Respond(c, "dashboard", <<>>, "redirect_login", "")
                /\ UNCHANGED accounts
           ELSE IF session[c] \notin Usernames
           THEN /\ response' = Respond(c, "dashboard", <<>>, "server_error", "")
                /\ UNCHANGED accounts
           ELSE /\ accounts' = IF HasAccount(session[c]) THEN accounts
                               ELSE [accounts EXCEPT ![session[c]] = Stored(Zero, 0)]
                /\ response' = Respond(c, "dashboard", <<>>, "page", "")
    /\ UNCHANGED <<calcVars, callers, users, session, obj, lastcall, requests, ledger>>

\* deposit_view
DepositView ==
    /\ \E c \in Clients, amount \in ViewAmounts, tie \in Tie :
           /\ Affordable(session[c], amount)
           /\ IF ~is_authenticated(session[c])
              THEN /\ response' = Respond(c, "deposit", <<amount>>, "redirect_login", "")
                   /\ UNCHANGED accounts
              ELSE IF ~HasAccount(session[c])
              THEN /\ response' = Respond(c, "deposit", <<amount>>, "server_error", "")
                   /\ UNCHANGED accounts
              ELSE IF ~AmountValid(amount)
              THEN /\ response' = Respond(c, "deposit", <<amount>>, "page", "")
                   /\ UNCHANGED accounts
              ELSE LET result == deposit(accounts[session[c]], CleanedAmount(amount))
                   IN  /\ accounts' = RowsAfter(session[c], result, tie)
                       /\ response' = Respond(c, "deposit", <<amount>>,
                                              IF result.kind = "ok" THEN "redirect_dashboard"
                                              ELSE "page",
                                              result.message)
    /\ UNCHANGED <<calcVars, callers, users, session, obj, lastcall, requests, ledger>>

\* withdraw_view
WithdrawView ==
    /\ \E c \in Clients, amount \in ViewAmounts, tie \in Tie :
           IF ~is_authenticated(session[c])
           THEN /\ response' = Respond(c, "withdraw", <<amount>>, "redirect_login", "")
                /\ UNCHANGED accounts
           ELSE IF ~HasAccount(session[c])
           THEN /\ response' = Respond(c, "withdraw", <<amount>>, "server_error", "")
                /\ UNCHANGED accounts
           ELSE IF ~AmountValid(amount)
           THEN /\ response' = Respond(c, "withdraw", <<amount>>, "page", "")
                /\ UNCHANGED accounts
           ELSE LET result == withdraw(accounts[session[c]], CleanedAmount(amount))
                IN  /\ accounts' = RowsAfter(session[c], result, tie)
                    /\ response' = Respond(c, "withdraw", <<amount>>,
                                           IF result.kind = "ok" THEN "redirect_dashboard"
                                           ELSE "page",
                                           result.message)
    /\ UNCHANGED <<calcVars, callers, users, session, obj, lastcall, requests, ledger>>

\* calculate_credit_card_balance as one call: the checks, then the loop of m
\* iterations, then round(bal, 2)
RECURSIVE CreditCardLoop(_, _, _, _)
CreditCardLoop(b, mi, mp, m) ==
    IF m = 0 THEN b ELSE CreditCardLoop(CreditCardMonth(b, mi, mp), mi, mp, m - 1)

calculate_credit_card_balance(current_balance, monthly_interest_percent, minimum_payment_percent, months, tie) ==
    LET checks == CreditCardChecks(current_balance, monthly_interest_percent,
                                   minimum_payment_percent, months)
    IN  IF checks.kind # "none" THEN checks
        ELSE Ok(Round2(CreditCardLoop(to_float(current_balance),
                                      to_float(monthly_interest_percent),
                                      to_float(minimum_payment_percent),
                                      MonthsToSimulate(months)), tie))

\* a field of request.POST is a text (NumStr, BadStr) or is not posted
Absent == [kind |-> "absent", val |-> Zero]

\* float(request.POST.get(name, default))
PostFloat(field, default) ==
    IF field.kind = "absent" THEN Ok(Rat(default))
    ELSE IF field.kind = "numstr" THEN Ok(field.val)
    ELSE Raise("ValueError", {}, "could not convert string to float", NoIndex)

\* int(request.POST.get(name, default))
PostInt(field, default) ==
    IF field.kind = "absent" THEN Ok(Rat(default))
    ELSE IF field.kind = "numstr" /\ IsIntegral(field.val) THEN Ok(field.val)
    ELSE Raise("ValueError", {}, "invalid literal for int()", NoIndex)

\* [float(x.strip()) for x in request.POST.get(name, "").split(",") if x.strip()]:
\* the field is the sequence of its non-blank items
PostList(field) ==
    IF \E i \in DOMAIN field : field[i].kind # "numstr"
    THEN Raise("ValueError", {}, "could not convert string to float", NoIndex)
    ELSE Ok(List([i \in DOMAIN field |-> Num(field[i].val[1], field[i].val[2])]))

\* the fields a branch reads, in its order, each converted: position i with
\* default defaults[i], by int() when i is in ints and by float() otherwise
PostFields(post, defaults, ints) ==
    [i \in DOMAIN defaults |->
        IF i \in ints THEN PostInt(post[i], defaults[i]) ELSE PostFloat(post[i], defaults[i])]

\* the first conversion that raises, NoOutcome when none does
FirstRaise(parsed) ==
    IF \A i \in DOMAIN parsed : parsed[i].kind = "ok" THEN NoOutcome
    ELSE parsed[CHOOSE i \in DOMAIN parsed :
                    /\ parsed[i].kind # "ok"
                    /\ \A j \in 1..(i - 1) : parsed[j].kind = "ok"]

\* a converted field as the float passed on
Passed(o) == Num(o.value[1], o.value[2])

\* the branch of a tool inside the try block: the value it assigns to result,
\* or the exception its conversions or its calculator raise
CalculatorBranch(tool, post, tie) ==
    LET defaults == CASE tool \in {"emi", "sip", "rd"} -> <<0, 0, 0>>
                      [] tool = "fd" -> <<0, 0, 0, 1>>
                      [] tool \in {"retire", "home", "cc"} -> <<0, 0, 0, 0>>
                      [] tool = "tax" -> <<0, 50000, 0>>
                      [] tool = "budget" -> <<0, 0>>
                      [] OTHER -> <<>>
        f == PostFields(post, defaults, IF tool \in {"fd", "cc"} THEN {4} ELSE {})
    IN  IF FirstRaise(f).kind # "none" THEN FirstRaise(f)
        ELSE CASE tool = "emi" -> calculate_emi(Passed(f[1]), Passed(f[2]), Passed(f[3]), tie)
               [] tool = "sip" ->
                     LET final_amount == calculate_sip(Passed(f[1]), Passed(f[2]), Passed(f[3]), tie)
                         invested == RMul(RMul(f[1].value, Rat(12)), f[3].value)
                     IN  IF final_amount.kind # "ok" THEN final_amount
                         ELSE Ok([total_investment |-> Round2(invested, tie),
                                  final_amount |-> Round2(final_amount.value, tie),
                                  gains |-> Round2(RSub(final_amount.value, invested), tie)])
               [] tool = "fd" ->
                     calculate_fd(Passed(f[1]), Passed(f[2]), Passed(f[3]), Passed(f[4]), tie)
               [] tool = "rd" -> calculate_rd(Passed(f[1]), Passed(f[2]), Passed(f[3]), tie)
               [] tool = "retire" ->
                     estimate_retirement_corpus(Passed(f[1]), Passed(f[2]), Passed(f[3]),
                                                Passed(f[4]), tie)
               [] tool = "home" ->
                     estimate_home_loan_eligibility(Passed(f[1]), Passed(f[2]), Passed(f[3]),
                                                    Passed(f[4]), Num(50, 1), tie)
               [] tool = "cc" ->
                     LET cc_result == calculate_credit_card_balance(
                                          Passed(f[1]), Passed(f[2]), Passed(f[3]),
                                          Passed(f[4]), tie)
                     IN  IF cc_result.kind # "ok" THEN cc_result
                         ELSE Ok([total_interest |-> Round2(cc_result.value, tie),
                                  total_paid |->
                                      Round2(RAdd(f[1].value, cc_result.value), tie)])
               [] tool = "tax" ->
                     calculate_taxable_income(Passed(f[1]), Passed(f[2]), Passed(f[3]), tie)
               [] tool = "budget" -> plan_budget(Passed(f[1]), Passed(f[2]), tie)
               [] tool = "networth" ->
                     LET assets == PostList(post[1])
                         liabilities == PostList(post[2])
                     IN  IF assets.kind # "ok" THEN assets
                         ELSE IF liabilities.kind # "ok" THEN liabilities
                         ELSE calculate_net_worth(assets.value, liabilities.value, tie)

\* handlers that leave a result behind next to the error
HandledKeepsResult(o) ==
    IF o.kind = "ValueError"
    THEN [result |-> [set |-> TRUE, value |-> o.value],
          error |-> "Invalid input: Please enter valid numbers"]
    ELSE [result |-> [set |-> TRUE, value |-> o.value],
          error |-> IF o.kind = "ok" THEN "" ELSE "Calculation error: float division by zero"]

\* the end of the try block: result is assigned when the branch has its
\* value; except ValueError and except Exception set error instead (the
\* message of the only other exception the calculators of the model raise,
\* ZeroDivisionError, is spelled out). error = "" stands for error = None
Handled(o) ==
    IF o.kind = "ok" THEN [result |-> [set |-> TRUE, value |-> o.value], error |-> ""]
    ELSE IF o.kind = "ValueError"
    THEN [result |-> NoResult, error |-> "Invalid input: Please enter valid numbers"]
    ELSE [result |-> NoResult, error |-> "Calculation error: float division by zero"]

\* result and error as calculator_view hands them to the template
CalculatorContext(tool, method, post, tie) ==
    IF method # "POST" THEN [result |-> NoResult, error |-> ""]
    ELSE IF tool \notin Tools
    THEN [result |-> NoResult, error |-> "Unknown calculator tool."]
    ELSE Handled(CalculatorBranch(tool, post, tie))

\* nothing posted
NoPost == <<Absent, Absent, Absent, Absent>>

\* the forms posted to the calculators: for each tool values it computes
\* with, and texts that do not convert, fields left out and values the
\* calculator refuses
CalculatorPosts ==
    {<<"emi", <<NumStr(120000, 1), NumStr(0, 1), NumStr(1, 1), Absent>>>>,
     <<"emi", <<NumStr(120000, 1), NumStr(0, 1), NumStr(1, 24), Absent>>>>,
     <<"emi", <<BadStr, NumStr(0, 1), NumStr(1, 1), Absent>>>>,
     <<"emi", NoPost>>,
     <<"sip", <<NumStr(1000, 1), NumStr(0, 1), NumStr(2, 1), Absent>>>>,
     <<"fd", <<NumStr(1000, 1), NumStr(100, 1), NumStr(1, 1), Absent>>>>,
     <<"fd", <<NumStr(1000, 1), NumStr(100, 1), NumStr(1, 1), NumStr(5, 2)>>>>,
     <<"rd", <<NumStr(1000, 1), NumStr(0, 1), NumStr(1, 1), Absent>>>>,
     <<"retire", <<NumStr(1000, 1), NumStr(100, 1), NumStr(0, 1), NumStr(1, 1)>>>>,
     <<"home", <<NumStr(1000, 1), NumStr(400, 1), NumStr(0, 1), NumStr(1, 1)>>>>,
     <<"cc", <<NumStr(1000, 1), NumStr(0, 1), NumStr(50, 1), NumStr(2, 1)>>>>,
     <<"cc", <<NumStr(1000, 1), NumStr(0, 1), NumStr(50, 1), NumStr(5, 2)>>>>,
     <<"tax", <<NumStr(100000, 1), Absent, NumStr(0, 1), Absent>>>>,
     <<"budget", <<NumStr(1000, 1), NumStr(400, 1), Absent, Absent>>>>,
     <<"networth", <<<<NumStr(1000, 1), NumStr(500, 1)>>, <<NumStr(300, 1)>>, Absent, Absent>>>>,
     <<"networth", <<<<NumStr(1000, 1), BadStr>>, <<>>, Absent, Absent>>>>,
     <<"invalid", NoPost>>}

\* the forms posted while the other views of the application are in use
BankPosts ==
    {p \in CalculatorPosts :
        \/ p[1] = "invalid"
        \/ p[1] = "emi" /\ p[2][1] = NumStr(120000, 1) /\ p[2][3] = NumStr(1, 1)}

\* calculator_view: behind @login_required; a GET renders the page of the
\* tool, a POST computes first; the context carries result and error
CalculatorRequest(posts) ==
    \E c \in Clients :
        \/ \E p \in posts, tie \in Tie :
               LET context == CalculatorContext(p[1], "POST", p[2], tie)
               IN  response' =
                       IF ~is_authenticated(session[c])
                       THEN Respond(c, "calculator", <<p[1], "POST", p[2]>>,
                                    "redirect_login", "")
                       ELSE [Respond(c, "calculator", <<p[1], "POST", p[2]>>, "page",
                                     context.error)
                                EXCEPT !.result = context.result]
        \/ \E tool \in {p[1] : p \in posts} :
               LET context == CalculatorContext(tool, "GET", NoPost, 0)
               IN  response' =
                       IF ~is_authenticated(session[c])
                       THEN Respond(c, "calculator", <<tool, "GET", NoPost>>,
                                    "redirect_login", "")
                       ELSE [Respond(c, "calculator", <<tool, "GET", NoPost>>, "page",
                                     context.error)
                                EXCEPT !.result = context.result]

CalculatorView ==
    /\ CalculatorRequest(BankPosts)
    /\ UNCHANGED <<calcVars, callers, users, accounts, session, obj, lastcall, requests, ledger>>

\* loan_estimator: the page with the form and the estimate
LoanEstimatorView ==
    /\ \E c \in Clients :
           response' =
               IF ~is_authenticated(session[c])
               THEN Respond(c, "loan_estimator", <<>>, "redirect_login", "")
               ELSE Respond(c, "loan_estimator", <<>>, "page", "")
    /\ UNCHANGED <<calcVars, callers, users, accounts, session, obj, lastcall, requests, ledger>>

NextBank ==
    \/ HomeView
    \/ RegisterView
    \/ LoginView
    \/ LogoutView
    \/ DashboardView
    \/ DepositView
    \/ WithdrawView
    \/ CalculatorView
    \/ LoanEstimatorView

SpecBank == Init /\ [][NextBank]_vars

\* the step answers a request to a protected view made without a session
UnauthenticatedProtectedRequest ==
    /\ response'.view \in ProtectedViews
    /\ session[response'.client] = Anonymous

(* C16: a request to dashboard, deposit, withdraw, loan_estimator or
   calculator made without an authenticated session is redirected to the
   login page and changes no balance; and the balance of an account changes
   only in a deposit or withdraw request of a client logged in as the owner
   of that account. *)
C16_ProtectedViewsRequireLogin ==
    [][/\ UnauthenticatedProtectedRequest
              => (response'.status = "redirect_login" /\ accounts' = accounts)
       /\ \A u \in Usernames :
              (accounts[u] # NoAccount /\ accounts'[u] # accounts[u])
                  => (/\ response'.view \in {"deposit", "withdraw"}
                      /\ session[response'.client] = u
                      /\ response'.user = u)]_vars

\* a deposit posted without a session, while an account holds money, was
\* answered with the redirect to the login page
C16_Witness ==
    /\ response.view = "deposit" /\ response.user = Anonymous
    /\ IsNumeric(response.params[1]) /\ AmountValid(response.params[1])
    /\ response.status = "redirect_login"
    /\ \E u \in Usernames : accounts[u] # NoAccount /\ RLt(Zero, accounts[u])

\* the step answers a login request of client c with these credentials
LoginRequest(c, username, password) ==
    /\ response'.view = "login" /\ response'.client = c
    /\ response'.params = <<username, password>>

(* C17: a client gets a session for user u only in a login request whose
   username and password authenticate as u, and a login request with a wrong
   password re-renders the login page and leaves the client as it was,
   without a session; a logout request always removes the session of the
   client, and a client without a session is redirected to login by every
   protected view, so after a logout until the next successful login. *)
C17_SessionLifecycle ==
    [][/\ \A c \in Clients :
              (session'[c] # session[c] /\ session'[c] # Anonymous)
                  => (/\ LoginRequest(c, session'[c], users[session'[c]])
                      /\ users[session'[c]] \in Passwords
                      /\ response'.status = "redirect_dashboard")
       /\ \A c \in Clients, u \in Usernames, p \in Passwords :
              (LoginRequest(c, u, p) /\ users[u] # p)
                  => (session' = session /\ response'.status = "page")
       /\ response'.view = "logout"
              => (/\ session'[response'.client] = Anonymous
                  /\ response'.status = "redirect_home")
       /\ \A c \in Clients :
              (session[c] = Anonymous /\ session'[c] = Anonymous
                   /\ response'.client = c /\ response'.view \in ProtectedViews)
                  => response'.status = "redirect_login"]_vars

\* a registered user's login with a wrong password got the login page back
\* and no session
C17_Witness ==
    /\ response.view = "login" /\ response.status = "page"
    /\ response.params[1] \in Usernames
    /\ response.params[2] \in Passwords
    /\ users[response.params[1]] \in Passwords
    /\ users[response.params[1]] # response.params[2]
    /\ session[response.client] = Anonymous

-----------------------------------------------------------------------------
(* The rounding of a duration to a month count *)

\* the integer nearest to years * 12, an exact half going to the even
\* neighbour: the k with |years * 12 - k| < 1/2, or = 1/2 and k even
NearestEvenMonths(years) ==
    LET x == RMul(years, Rat(12))
    IN  CHOOSE k \in (Floor(x) - 1)..(Floor(x) + 2) :
            \/ 2 * Abs(x[1] - k * x[2]) < x[2]
            \/ 2 * Abs(x[1] - k * x[2]) = x[2] /\ k % 2 = 0

\* a returned call of fn whose arguments are numbers in the accepted ranges,
\* argument y being the duration in years
DurationCall(fn, y) ==
    /\ Returned(fn) /\ AllNumeric
    /\ \A i \in DOMAIN call.args : RLe(Zero, ArgVal(i))
    /\ RLt(Zero, ArgVal(y))
    /\ (fn = "emi" => RLt(Zero, ArgVal(1)))
    /\ (fn = "home" => RLe(ArgVal(5), Rat(100)))

\* years * 12 lies exactly halfway between two integers
MonthTie(years) == LET x == RMul(years, Rat(12)) IN x[2] = 2

(* C21: calculate_emi, calculate_sip, calculate_rd,
   estimate_retirement_corpus and estimate_home_loan_eligibility all compute
   with the same month count n: the integer nearest to years * 12, an exact
   .5 going to the even integer; none truncates or breaks ties another way.
   Each function's outcome is the one its formula gives for that n. *)
C21_OneRoundingRule ==
    /\ DurationCall("emi", 3) =>
           LET e == EmiFormula(ArgVal(1), MonthlyRate(ArgVal(2)), NearestEvenMonths(ArgVal(3)))
           IN  /\ outcome.kind = e.kind
               /\ e.kind = "ok" => outcome.value = Round2(e.value, call.tie)
    /\ DurationCall("sip", 3) =>
           /\ outcome.kind = "ok"
           /\ outcome.value = Round2(SipAmount(ArgVal(1), MonthlyRate(ArgVal(2)),
                                               NearestEvenMonths(ArgVal(3))), call.tie)
    /\ DurationCall("rd", 3) =>
           /\ outcome.kind = "ok"
           /\ outcome.value = Round2(RdAmount(ArgVal(1), MonthlyRate(ArgVal(2)),
                                              NearestEvenMonths(ArgVal(3))), call.tie)
    /\ DurationCall("retire", 4) =>
           /\ outcome.kind = "ok"
           /\ outcome.value = Round2(RetirementTotal(ArgVal(1), ArgVal(2), MonthlyRate(ArgVal(3)),
                                                     NearestEvenMonths(ArgVal(4))), call.tie)
    /\ DurationCall("home", 4) =>
           IF NearestEvenMonths(ArgVal(4)) <= 0 THEN outcome.kind = "ValueError"
           ELSE /\ outcome.kind = "ok"
                /\ outcome.value
                       = Round2(PrincipalFor(EmiCap(ArgVal(1), ArgVal(2), ArgVal(5)),
                                             MonthlyRate(ArgVal(3)),
                                             NearestEvenMonths(ArgVal(4))), call.tie)

\* a deposit plan over 5/24 of a year, 2.5 months, at rate 0: the amount is
\* that of 2 months, not of 3
C21_Witness ==
    /\ DurationCall("sip", 3) /\ ArgVal(2) = Zero /\ RLt(Zero, ArgVal(1))
    /\ ArgVal(3) = <<5, 24>> /\ MonthTie(ArgVal(3))
    /\ outcome.kind = "ok"
    /\ outcome.value = RMul(ArgVal(1), Rat(2))

-----------------------------------------------------------------------------
(* From the eligible principal back to the instalment, at a zero rate *)

\* x is a whole number of cents
TwoDecimals(x) == 100 % x[2] = 0

\* a returned, validated call of estimate_home_loan_eligibility at rate 0
\* whose EMI cap is positive and a whole number of cents
ZeroRateEligibility ==
    /\ HomeInputValid /\ ArgVal(3) = Zero
    /\ RLt(Zero, ClaimedCap(ArgVal(1), ArgVal(2), ArgVal(5)))
    /\ TwoDecimals(ClaimedCap(ArgVal(1), ArgVal(2), ArgVal(5)))

(* C23: at interest rate 0, for every valid input whose EMI cap c > 0 has at
   most two decimal places, the principal P returned by
   estimate_home_loan_eligibility(income, expenses, 0, tenure, pct) gives
   calculate_emi(P, 0, tenure) = c: over the same month count the two
   functions are inverse to each other. *)
C23_ZeroRateRoundTrip ==
    ZeroRateEligibility =>
        /\ outcome.kind = "ok"
        /\ \A t \in Tie :
               calculate_emi(Num(outcome.value[1], outcome.value[2]), Num(0, 1),
                             call.args[4], t)
                   = Ok(ClaimedCap(ArgVal(1), ArgVal(2), ArgVal(5)))

\* a cap of 1.25 over a quarter of a year: the principal is 3.75, and three
\* instalments of 1.25 repay it
C23_Witness ==
    /\ ZeroRateEligibility
    /\ ClaimedCap(ArgVal(1), ArgVal(2), ArgVal(5)) = <<5, 4>>
    /\ ArgVal(4) = <<1, 4>>
    /\ outcome.value = <<15, 4>>
    /\ calculate_emi(Num(15, 4), Num(0, 1), Num(1, 4), 0) = Ok(<<5, 4>>)

-----------------------------------------------------------------------------
(* The calculators behind the login: every form of CalculatorPosts *)

\* calculator_view, for every tool
CalculatorForms ==
    /\ CalculatorRequest(CalculatorPosts)
    /\ UNCHANGED <<calcVars, callers, users, accounts, session, obj, lastcall, requests, ledger>>

NextCalculator ==
    \/ RegisterView
    \/ LoginView
    \/ LogoutView
    \/ CalculatorForms

SpecCalculator == Init /\ [][NextCalculator]_vars

\* calculator_view has answered with its page
CalculatorPage == response.view = "calculator" /\ response.status = "page"

\* the branch of the tool raises on the form of the request
BranchRaises ==
    /\ response.params[1] \in Tools
    /\ \E t \in Tie :
           CalculatorBranch(response.params[1], response.params[3], t).kind # "ok"

(* C24: calculator_view never sets both result and error. A POST for a tool
   outside emi, sip, fd, rd, retire, home, cc, tax, budget, networth yields the
   error "Unknown calculator tool." and no result; a POST whose parsing or
   computation raises an exception yields an error and no result; a GET sets
   neither. *)
C24_ResultOrError ==
    response.view = "calculator" =>
        /\ ~(response.result.set /\ response.error # "")
        /\ response.params[2] = "GET" => (~response.result.set /\ response.error = "")
        /\ (CalculatorPage /\ response.params[2] = "POST"
                /\ response.params[1]
                       \notin {"emi", "sip", "fd", "rd", "retire", "home", "cc", "tax",
                               "budget", "networth"})
               => (response.error = "Unknown calculator tool." /\ ~response.result.set)
        /\ (CalculatorPage /\ response.params[2] = "POST" /\ BranchRaises)
               => (response.error # "" /\ ~response.result.set)

\* an EMI form with a tenure of half a month: the division by n = 0 inside
\* calculate_emi is caught, the page shows an error and no result
C24_Witness ==
    /\ CalculatorPage /\ response.params[1] = "emi" /\ response.params[2] = "POST"
    /\ response.params[3][3] = NumStr(1, 24)
    /\ BranchRaises
    /\ response.error = "Calculation error: float division by zero"
    /\ ~response.result.set

-----------------------------------------------------------------------------
(* deposit_view and withdraw_view serving requests at the same time: each
   request reads the row into its own Account instance when the view starts
   and writes the row back in self.save(); nothing in views.py or models.py
   keeps another request from reading or writing the row in between *)

\* the amounts posted: whole rupees, and one below the minimum of the form
RequestAmounts == {Num(500, 1), Num(1000, 1), Num(1, 200)}

\* u1 has an account and is logged in on every client
InitRequests ==
    /\ CalcInit
    /\ users = [u \in Usernames |-> IF u = "u1" THEN "p1" ELSE Unregistered]
    /\ \E b \in StartBalances :
           /\ accounts = [u \in Usernames |-> IF u = "u1" THEN b ELSE NoAccount]
           /\ ledger = [NoLedger EXCEPT !.initial = b]
    /\ session = [c \in Clients |-> "u1"]
    /\ response = NoResponse
    /\ obj = NoObject
    /\ lastcall = NoCall
    /\ requests = [c \in Clients |-> NoRequest]

\* the view starts on a request of a logged-in client:
\* account = Account.objects.get(user=request.user)
ViewLoads(view) ==
    /\ ledger.served < MaxServed
    /\ \E c \in Clients, amount \in RequestAmounts :
           /\ requests[c].pc = "idle"
           /\ is_authenticated(session[c]) /\ HasAccount(session[c])
           /\ requests' = [requests EXCEPT ![c] =
                              [pc |-> "loaded", view |-> view, amount |-> amount,
                               balance |-> accounts[session[c]]]]
    /\ ledger' = [ledger EXCEPT !.served = @ + 1]

\* the money a saved call has moved, added to the totals
LedgerAfter(view, amount, result) ==
    IF ~result.saved THEN ledger
    ELSE IF view = "deposit"
    THEN [ledger EXCEPT !.deposited = RAdd(@, to_float(amount))]
    ELSE [ledger EXCEPT !.withdrawn = RAdd(@, to_float(amount))]

\* the balance of the instance the request has loaded
LoadedBalance(c) == requests[c].balance

\* the rest of the view: form.is_valid(), then account.deposit(amount) or
\* account.withdraw(amount) on the instance loaded (the check, the change of
\* self.balance, self.save()), then the response
ViewSaves(view) ==
    /\ \E c \in Clients, tie \in Tie :
           /\ requests[c].pc = "loaded" /\ requests[c].view = view
           /\ LET amount == requests[c].amount
                  result ==
                      IF ~AmountValid(amount) THEN Rejected("invalid", "", LoadedBalance(c))
                      ELSE IF view = "deposit"
                      THEN deposit(LoadedBalance(c), CleanedAmount(amount))
                      ELSE withdraw(LoadedBalance(c), CleanedAmount(amount))
              IN  /\ accounts' = RowsAfter(session[c], result, tie)
                  /\ ledger' = LedgerAfter(view, amount, result)
                  /\ response' = Respond(c, view, <<amount>>,
                                         IF result.kind = "ok" THEN "redirect_dashboard"
                                         ELSE "page",
                                         result.message)
           /\ requests' = [requests EXCEPT ![c] = NoRequest]

\* deposit_view, up to the row read
DepositLoads ==
    /\ ViewLoads("deposit")
    /\ UNCHANGED <<calcVars, callers, users, accounts, session, response, obj, lastcall>>

\* deposit_view, from the row read on
DepositSaves ==
    /\ ViewSaves("deposit")
    /\ UNCHANGED <<calcVars, callers, users, session, obj, lastcall>>

\* withdraw_view, up to the row read
WithdrawLoads ==
    /\ ViewLoads("withdraw")
    /\ UNCHANGED <<calcVars, callers, users, accounts, session, response, obj, lastcall>>

\* withdraw_view, from the row read on
WithdrawSaves ==
    /\ ViewSaves("withdraw")
    /\ UNCHANGED <<calcVars, callers, users, session, obj, lastcall>>

NextRequests ==
    \/ DepositLoads
    \/ DepositSaves
    \/ WithdrawLoads
    \/ WithdrawSaves

SpecRequests == InitRequests /\ [][NextRequests]_vars

\* no request is being served
Quiescent == \A c \in Clients : requests[c].pc = "idle"

(* C22: no update is lost when deposit and withdraw requests on the same
   account interleave: once the requests are served the persisted balance is
   the initial balance plus the successful deposits minus the successful
   withdrawals, and the total withdrawn never exceeds the initial balance plus
   the deposits. *)
C22_NoLostUpdate ==
    /\ RLe(ledger.withdrawn, RAdd(ledger.initial, ledger.deposited))
    /\ Quiescent =>
           accounts["u1"] = RSub(RAdd(ledger.initial, ledger.deposited), ledger.withdrawn)

====
